---- MODULE Spec2Model ----
(***************************************************************************)
(* The agent control loop with interleaved authorization of the Gmail      *)
(* assistant: the three copies of the LangGraph workflow                   *)
(*   a2  = arcade_2_langgraph_agent.build_graph                            *)
(*   a3  = arcade_3_agent_with_memory.build_graph                          *)
(*   cli = GmailCLIAssistant._build_graph                                  *)
(* and app = the a3 graph as it is run by app.py (recursion_limit 100).    *)
(* The copies are stepped together on the same model outputs and the same  *)
(* authorization outcomes, so that their node sequences can be compared.   *)
(*                                                                         *)
(* Text is a sequence of tokens (words); " " and "\n" are the whitespace   *)
(* tokens.  A message is a record [type, content, tool_calls, name].       *)
(*                                                                         *)
(* The two web front ends, app.py ("app") and arcade_3_streamlit_app.py    *)
(* ("streamlit"), are modelled by WebSpec: the session of one browser tab  *)
(* (sign in, sign out, render, New Conversation, Clean Errors, prompt),    *)
(* the loop of stream_agent_response over the chunks of a run, the         *)
(* StreamlitWriter object and the e-mail formatting with its tracking      *)
(* sets.                                                                   *)
(***************************************************************************)
EXTENDS Integers, Sequences, FiniteSets, TLC

VARIABLES node, messages, trace, steps, err, rounds,
          authorized, authLog, authUser, executed, modelInput,
          config, convention, chunks, returned, streamed

\* the web front ends: which script runs and what is exercised (scene), the
\* st.session_state of the tab, the module-level tracking sets, the
\* StreamlitWriter and its placeholder, the locals of stream_agent_response,
\* and the record of the last agent interaction
VARIABLES scene, session_state, tracking, writer, placeholder, streaming,
          interaction

graphvars == <<node, messages, trace, steps, err, rounds,
               authorized, authLog, authUser, executed, modelInput,
               config, convention, chunks, returned, streamed>>

webvars == <<scene, session_state, tracking, writer, placeholder, streaming,
             interaction>>

vars == <<graphvars, webvars>>

----------------------------------------------------------------------------
(* Bounds of the model *)

\* most tool calls in one model response
MaxCalls == 2
\* most model responses with tool calls in a run of a2, a3, cli ("the model
\* eventually emits a message without tool calls")
MaxRounds == 1
\* slack of the caps on history and steps over the longest run there is
\* the prompts of one browser session
MaxPrompts == 2
\* the chunks of one stream, the operations on one writer, the calls of the
\* e-mail formatter
MaxChunks == 3
MaxWrites == 3
MaxFormats == 3
MaxEmails == 3
HistorySlack == 2

(* Program constants *)

\* app.py: config["recursion_limit"]
recursion_limit == 100

None == "None"
END == "__end__"

Copies == {"a2", "a3", "cli", "app"}
Trio == {"a2", "a3", "cli"}

----------------------------------------------------------------------------
(* Text *)

Whitespace == {" ", "\n"}

\* str.lower() on the tokens that occur
LowerTok(t) ==
    CASE t = "Authorization" -> "authorization"
      [] t = "Hello" -> "hello"
      [] t = "Email" -> "email"
      [] t = "Null" -> "null"
      [] t = "Gmail_ListEmails" -> "gmail_listemails"
      [] t = "Gmail_SendEmail" -> "gmail_sendemail"
      [] t = "Math_Sqrt" -> "math_sqrt"
      [] t = "Subject:" -> "subject:"
      [] t = "Here" -> "here"
      [] t = "Error" -> "error"
      [] t = "Show" -> "show"
      [] OTHER -> t

lower(s) == [i \in 1..Len(s) |-> LowerTok(s[i])]

RECURSIVE lstrip(_)
lstrip(s) == IF s # <<>> /\ Head(s) \in Whitespace THEN lstrip(Tail(s)) ELSE s

RECURSIVE rstrip(_)
rstrip(s) ==
    IF s # <<>> /\ s[Len(s)] \in Whitespace
    THEN rstrip(SubSeq(s, 1, Len(s) - 1)) ELSE s

strip(s) == rstrip(lstrip(s))

\* Python's `sub in s` for text
contains(s, sub) ==
    \E i \in 0..(Len(s) - Len(sub)) : SubSeq(s, i + 1, i + Len(sub)) = sub

\* str.replace(".", "")
RECURSIVE replace_dots(_)
replace_dots(s) ==
    IF s = <<>> THEN <<>>
    ELSE IF Head(s) = "." THEN replace_dots(Tail(s))
    ELSE <<Head(s)>> \o replace_dots(Tail(s))

----------------------------------------------------------------------------
(* Tools and the Arcade tool manager *)

ToolNames == {"Gmail_ListEmails", "Gmail_SendEmail", "Math_Sqrt"}

\* manager.requires_auth(tool_name)
requires_auth(tool_name) ==
    tool_name \in {"Gmail_ListEmails", "Gmail_SendEmail", "Gmail_WriteDraftEmail",
                   "Gmail_WriteDraftReplyEmail"}

AuthTools == {t \in ToolNames : requires_auth(t)}

\* manager.authorize(tool_name, user_id).status, given the grants on record
authorize_status(granted, tool_name, user_id) ==
    IF <<tool_name, user_id>> \in granted THEN "completed" ELSE "pending"

\* manager.wait_for_auth(id): returns when the user has granted the request
\* or has given up; willGrant is what the user does while the node blocks
wait_for_auth(granted, tool_name, user_id, willGrant) ==
    IF tool_name \in willGrant THEN granted \cup {<<tool_name, user_id>>}
    ELSE granted

\* manager.is_authorized(id)
is_authorized(granted, tool_name, user_id) == <<tool_name, user_id>> \in granted

----------------------------------------------------------------------------
(* Messages *)

HumanMessage(content) ==
    [type |-> "human", content |-> content, tool_calls |-> <<>>, name |-> None]
AIMessage(content, tool_calls) ==
    [type |-> "ai", content |-> content, tool_calls |-> tool_calls, name |-> None]
SystemMessage(content) ==
    [type |-> "system", content |-> content, tool_calls |-> <<>>, name |-> None]
ToolMessage(content, name) ==
    [type |-> "tool", content |-> content, tool_calls |-> <<>>, name |-> name]

Last(s) == s[Len(s)]

----------------------------------------------------------------------------
(* The run configuration and how the framework hands it to a node *)

\* a user id is text; Python's None in its place, and a missing "user_id" key
NoneId == <<"None">>
Absent == <<"<absent>">>

\* dict.get(key) / dict.get(key, default) on config["configurable"]
get_user_id(cfg, default) == IF cfg.user_id = Absent THEN default ELSE cfg.user_id

\* The positional and keyword arguments with which the framework calls
\* authorize(state, *args, **kwargs) of a3.  LangGraph passes config only to
\* a parameter named config, which this signature does not have ("none");
\* the function itself also provides for the other two conventions.
Conventions == {"positional", "keyword", "none"}

call_args(conv, cfg) == IF conv = "positional" THEN <<cfg>> ELSE <<>>
call_kwargs(conv, cfg) == [k \in (IF conv = "keyword" THEN {"config"} ELSE {}) |-> cfg]

----------------------------------------------------------------------------
(* arcade_2_langgraph_agent *)

\* tc.get("name", "").strip() is empty
blank_name(n) == n \in {"", " "}

\* the list comprehension of call_agent without its condition
all_tool_calls(tool_calls) == tool_calls

valid_tool_calls(tool_calls) == SelectSeq(tool_calls, LAMBDA tc : ~blank_name(tc.name))

\* call_agent: accumulate the streamed chunks into one AIMessage
RECURSIVE a2_accumulate(_, _, _)
a2_accumulate(stream, full_content, tool_calls) ==
    IF stream = <<>> THEN AIMessage(full_content, tool_calls)
    ELSE LET chunk == Head(stream) IN
         a2_accumulate(Tail(stream),
                       IF chunk.content # <<>> THEN full_content \o chunk.content
                       ELSE full_content,
                       IF chunk.tool_calls # <<>>
                       THEN tool_calls \o valid_tool_calls(chunk.tool_calls)
                       ELSE tool_calls)

a2_call_agent(stream) == a2_accumulate(stream, <<>>, <<>>)

\* call_agent: the calls writer(chunk.content) it makes, in order
RECURSIVE a2_writer(_)
a2_writer(stream) ==
    IF stream = <<>> THEN <<>>
    ELSE (IF Head(stream).content # <<>> THEN <<Head(stream).content>> ELSE <<>>)
         \o a2_writer(Tail(stream))

\* the loop "for tool_call in tool_calls: if requires_auth: return"
RECURSIVE a2_scan(_)
a2_scan(tool_calls) ==
    IF tool_calls = <<>> THEN "tools"
    ELSE IF requires_auth(Head(tool_calls).name) THEN "authorization"
    ELSE a2_scan(Tail(tool_calls))

a2_should_continue(msgs) ==
    IF Last(msgs).tool_calls # <<>> THEN a2_scan(Last(msgs).tool_calls) ELSE END

\* what an authorization node does, in order: the events of tool call i
Ev(ev, i, tool_name, user_id) ==
    [ev |-> ev, call |-> i, tool |-> tool_name, user |-> user_id, status |-> ""]
\* the call of manager.authorize and the status it answered
AuthEv(i, tool_name, user_id, status) ==
    [ev |-> "authorize", call |-> i, tool |-> tool_name, user |-> user_id,
     status |-> status]

\* authorize: write the URL, then block in manager.wait_for_auth
a2_url_then_wait(i, tool_name, user_id) ==
    <<Ev("url", i, tool_name, user_id), Ev("wait", i, tool_name, user_id)>>

\* authorize: the loop over the tool calls of the last message, from call i on
RECURSIVE a2_authorize_loop(_, _, _, _, _, _)
a2_authorize_loop(tool_calls, i, user_id, granted, willGrant, log) ==
    IF i > Len(tool_calls)
    THEN [outcome |-> "return", msgs |-> <<>>, granted |-> granted, log |-> log]
    ELSE LET tool_name == tool_calls[i].name IN
         IF ~requires_auth(tool_name)
         THEN a2_authorize_loop(tool_calls, i + 1, user_id, granted, willGrant, log)
         ELSE LET status == authorize_status(granted, tool_name, user_id)
                  log1 == Append(log, AuthEv(i, tool_name, user_id, status))
              IN  IF status # "completed"
                  THEN LET log2 == log1 \o a2_url_then_wait(i, tool_name, user_id)
                           granted2 == wait_for_auth(granted, tool_name, user_id, willGrant)
                           log3 == Append(log2, Ev("is_authorized", i, tool_name, user_id))
                       IN  IF ~is_authorized(granted2, tool_name, user_id)
                           THEN [outcome |-> "ValueError", msgs |-> <<>>,
                                 granted |-> granted2, log |-> log3]
                           ELSE a2_authorize_loop(tool_calls, i + 1, user_id,
                                                  granted2, willGrant, log3)
                  ELSE a2_authorize_loop(tool_calls, i + 1, user_id,
                                         granted, willGrant, log1)

\* a slip: only the first tool call of the message is authorized
a2_authorize_first_only(msgs, cfg, granted, willGrant) ==
    a2_authorize_loop(SubSeq(Last(msgs).tool_calls, 1, 1), 1,
                      get_user_id(cfg, NoneId), granted, willGrant, <<>>)

a2_authorize(msgs, cfg, granted, willGrant) ==
    a2_authorize_loop(Last(msgs).tool_calls, 1, get_user_id(cfg, NoneId),
                      granted, willGrant, <<>>)

----------------------------------------------------------------------------
(* arcade_3_agent_with_memory *)

system_message == <<"You", "are", "a", "helpful", "AI", "assistant">>

a3_messages_with_system(msgs) ==
    IF msgs = <<>> \/ msgs[1].type # "system"
    THEN <<SystemMessage(system_message)>> \o msgs
    ELSE msgs

RECURSIVE a3_scan(_)
a3_scan(tool_calls) ==
    IF tool_calls = <<>> THEN "tools"
    ELSE IF requires_auth(Head(tool_calls).name) THEN "authorization"
    ELSE a3_scan(Tail(tool_calls))

\* a slip: tool calls go to the tools node without the authorization check
a3_should_continue_no_auth(msgs) ==
    IF Last(msgs).tool_calls # <<>> THEN "tools" ELSE END

a3_should_continue(msgs) ==
    IF Last(msgs).tool_calls # <<>> THEN a3_scan(Last(msgs).tool_calls) ELSE END

\* authorize: the user id, from whatever the caller passed
a3_user_id(args, kwargs) ==
    LET cfg == IF args # <<>> THEN <<args[1]>>
               ELSE IF "config" \in DOMAIN kwargs THEN <<kwargs["config"]>>
               ELSE <<>>
    IN  IF cfg = <<>> THEN <<"default_user">>
        ELSE get_user_id(cfg[1], <<"default_user">>)

\* a slip: the node blocks before the URL is printed
a3_wait_then_url(i, tool_name, user_id) ==
    <<Ev("wait", i, tool_name, user_id), Ev("url", i, tool_name, user_id)>>

\* authorize: print the URL, then block in manager.wait_for_auth
a3_url_then_wait(i, tool_name, user_id) ==
    <<Ev("url", i, tool_name, user_id), Ev("wait", i, tool_name, user_id)>>

RECURSIVE a3_authorize_loop(_, _, _, _, _, _)
a3_authorize_loop(tool_calls, i, user_id, granted, willGrant, log) ==
    IF i > Len(tool_calls)
    THEN [outcome |-> "return", msgs |-> <<>>, granted |-> granted, log |-> log]
    ELSE LET tool_name == tool_calls[i].name IN
         IF ~requires_auth(tool_name)
         THEN a3_authorize_loop(tool_calls, i + 1, user_id, granted, willGrant, log)
         ELSE LET status == authorize_status(granted, tool_name, user_id)
                  log1 == Append(log, AuthEv(i, tool_name, user_id, status))
              IN  IF status # "completed"
                  THEN LET log2 == log1 \o a3_url_then_wait(i, tool_name, user_id)
                           granted2 == wait_for_auth(granted, tool_name, user_id, willGrant)
                           log3 == Append(log2, Ev("is_authorized", i, tool_name, user_id))
                       IN  IF ~is_authorized(granted2, tool_name, user_id)
                           THEN [outcome |-> "ValueError", msgs |-> <<>>,
                                 granted |-> granted2, log |-> log3]
                           ELSE a3_authorize_loop(tool_calls, i + 1, user_id,
                                                  granted2, willGrant, log3)
                  ELSE a3_authorize_loop(tool_calls, i + 1, user_id,
                                         granted, willGrant, log1)

\* a slip: the failure is reported but not raised
a3_authorize_no_raise(msgs, args, kwargs, granted, willGrant) ==
    [a3_authorize_loop(Last(msgs).tool_calls, 1, a3_user_id(args, kwargs),
                       granted, willGrant, <<>>) EXCEPT !.outcome = "return"]

a3_authorize(msgs, args, kwargs, granted, willGrant) ==
    a3_authorize_loop(Last(msgs).tool_calls, 1, a3_user_id(args, kwargs),
                      granted, willGrant, <<>>)

----------------------------------------------------------------------------
(* gmail_cli_assistant: GmailCLIAssistant *)

\* manager.authorize(tool_name, user_id): status, url and id of the request
authorize_response(granted, tool_name, user_id) ==
    [status |-> authorize_status(granted, tool_name, user_id),
     url |-> <<"https://auth/", tool_name>>,
     id |-> <<tool_name, user_id>>]

\* a slip: the model is given the last message only
cli_messages_last_only(msgs) == <<SystemMessage(system_message), Last(msgs)>>

cli_messages_with_system(msgs) == <<SystemMessage(system_message)>> \o msgs

\* a slip: only the first tool call decides
cli_scan_first_only(tool_calls) ==
    IF tool_calls = <<>> THEN "tools"
    ELSE IF requires_auth(Head(tool_calls).name) THEN "authorization"
    ELSE "tools"

RECURSIVE cli_scan(_)
cli_scan(tool_calls) ==
    IF tool_calls = <<>> THEN "tools"
    ELSE IF requires_auth(Head(tool_calls).name) THEN "authorization"
    ELSE cli_scan(Tail(tool_calls))

cli_should_continue(msgs) ==
    IF Last(msgs).tool_calls # <<>> THEN cli_scan(Last(msgs).tool_calls) ELSE END

\* _check_authorization_methods: ToolManager has both methods
has_wait_for_auth == TRUE
has_is_authorized == TRUE

still_pending_message(tool_name) ==
    AIMessage(<<"Authorization", "required", "for", tool_name, ".", " ",
                "Please", "complete", "the", "authorization", "process">>, <<>>)
no_url_message(tool_name) ==
    AIMessage(<<"Authorization", "required", "for", tool_name, "but", "no",
                "authorization", "URL", "was", "provided">>, <<>>)
try_again_message(tool_name) ==
    AIMessage(<<"Authorization", "required", "for", tool_name, ".", " ",
                "Please", "try", "again">>, <<>>)

RECURSIVE cli_authorize_loop(_, _, _, _, _, _)
cli_authorize_loop(tool_calls, i, user_id, granted, willGrant, log) ==
    IF i > Len(tool_calls)
    THEN [outcome |-> "return", msgs |-> <<>>, granted |-> granted, log |-> log]
    ELSE LET tool_name == tool_calls[i].name IN
         IF ~requires_auth(tool_name)
         THEN cli_authorize_loop(tool_calls, i + 1, user_id, granted, willGrant, log)
         ELSE
         LET auth_response == authorize_response(granted, tool_name, user_id)
             log1 == Append(log, AuthEv(i, tool_name, user_id, auth_response.status))
         IN
         IF auth_response.status = "pending"
         THEN IF auth_response.url # <<>>
              THEN LET log2 == log1 \o <<Ev("url", i, tool_name, user_id),
                                         Ev("input", i, tool_name, user_id)>>
                   IN
                   IF has_wait_for_auth /\ has_is_authorized
                   THEN LET log3 == Append(log2, Ev("wait", i, tool_name, user_id))
                            granted2 == wait_for_auth(granted, tool_name, user_id, willGrant)
                            log4 == Append(log3, Ev("is_authorized", i, tool_name, user_id))
                        IN  IF is_authorized(granted2, tool_name, user_id)
                            THEN cli_authorize_loop(tool_calls, i + 1, user_id,
                                                    granted2, willGrant, log4)
                            ELSE [outcome |-> "return",
                                  msgs |-> <<still_pending_message(tool_name)>>,
                                  granted |-> granted2, log |-> log4]
                   ELSE \* fallback: ask manager.authorize again
                        LET granted2 == wait_for_auth(granted, tool_name, user_id, willGrant)
                            check_response == authorize_response(granted2, tool_name, user_id)
                            log3 == Append(log2, AuthEv(i, tool_name, user_id,
                                                        check_response.status))
                        IN  IF check_response.status = "completed"
                            THEN cli_authorize_loop(tool_calls, i + 1, user_id,
                                                    granted2, willGrant, log3)
                            ELSE [outcome |-> "return",
                                  msgs |-> <<still_pending_message(tool_name)>>,
                                  granted |-> granted2, log |-> log3]
              ELSE [outcome |-> "return", msgs |-> <<no_url_message(tool_name)>>,
                    granted |-> granted, log |-> log1]
         ELSE IF auth_response.status = "completed"
         THEN cli_authorize_loop(tool_calls, i + 1, user_id, granted, willGrant, log1)
         ELSE [outcome |-> "return", msgs |-> <<try_again_message(tool_name)>>,
               granted |-> granted, log |-> log1]

cli_authorize(msgs, cfg, user_email, granted, willGrant) ==
    cli_authorize_loop(Last(msgs).tool_calls, 1,
                       get_user_id(cfg, replace_dots(user_email)),
                       granted, willGrant, <<>>)

\* graph.astream(inputs, config=config): no stream_mode is given, and a
\* compiled StateGraph then streams "updates": one dict {node name: update}
\* per step; in mode "values" a chunk is the state dict {"messages": [...]}
cli_stream_mode == "updates"

astream_chunk(stream_mode, node_name, update, state) ==
    IF stream_mode = "values" THEN [k \in {"messages"} |-> state]
    ELSE [k \in {node_name} |-> update]

valid_content(content) ==
    content # <<>> /\ strip(content) # <<>> /\ lower(content) # <<"null">>

\* the body of "async for chunk in self.graph.astream(...)" for one chunk;
\* the messages carry no tool_results attribute and no "tool_results" entry
\* in additional_kwargs, so those branches add nothing
process_chunk(acc, chunk) ==
    IF "messages" \notin DOMAIN chunk THEN acc
    ELSE IF chunk["messages"] = <<>> THEN [acc EXCEPT !.raised = TRUE]
    ELSE
    LET last_message == Last(chunk["messages"])
        content == last_message.content
        low == lower(content)
        hasContent == valid_content(content)
        isAuth == contains(low, <<"authorization">>)
        isTool == contains(low, <<"tool">>) \/ contains(low, <<"email">>)
                  \/ contains(low, <<"draft">>)
        \* other fields of the message object with a non-blank string value
        extra == <<last_message.type, "\n">>
                 \o (IF last_message.name # None
                     THEN <<last_message.name, "\n">> ELSE <<>>)
    IN  [acc EXCEPT
           !.all_messages = Append(@, last_message),
           !.full_response = @ \o (IF hasContent THEN content \o <<"\n">> ELSE <<>>)
                               \o extra,
           !.authorization_required = @ \/ (hasContent /\ isAuth),
           !.tool_executed = @ \/ (hasContent /\ ~isAuth /\ isTool)
                               \/ last_message.tool_calls # <<>>
                               \/ extra # <<>>]

RECURSIVE process_chunks(_, _)
process_chunks(acc, cs) ==
    IF cs = <<>> \/ acc.raised THEN acc
    ELSE process_chunks(process_chunk(acc, Head(cs)), Tail(cs))

\* "for message in reversed(all_messages)": the first valid content
RECURSIVE last_valid_content(_)
last_valid_content(all_messages) ==
    IF all_messages = <<>> THEN <<>>
    ELSE IF valid_content(Last(all_messages).content)
    THEN Last(all_messages).content
    ELSE last_valid_content(SubSeq(all_messages, 1, Len(all_messages) - 1))

\* workflow.compile() sets no checkpointer: graph.get_state(config) raises,
\* and process_command catches it
get_state_raises == TRUE

ToolExecutedNoResponse == <<"Tool", "executed", "but", "no", "response", "received">>
AuthorizationGuide == <<"Authorization", "Required">>
NoResponse == <<"No", "response", "received", "from", "the", "tool", "execution">>
ErrorProcessing == <<"Error", "processing", "command">>

process_command(cs, final_state) ==
    LET acc0 == [full_response |-> <<>>, authorization_required |-> FALSE,
                 tool_executed |-> FALSE, all_messages |-> <<>>, raised |-> FALSE]
        acc == process_chunks(acc0, cs)
        r1 == IF strip(acc.full_response) = <<>> /\ acc.all_messages # <<>>
              THEN last_valid_content(acc.all_messages) ELSE acc.full_response
        r2 == IF strip(r1) = <<>> /\ acc.all_messages # <<>>
                 /\ valid_content(Last(acc.all_messages).content)
              THEN Last(acc.all_messages).content ELSE r1
        r3 == IF strip(r2) = <<>> /\ ~get_state_raises /\ final_state # <<>>
                 /\ valid_content(Last(final_state).content)
              THEN Last(final_state).content ELSE r2
    IN  IF acc.raised THEN ErrorProcessing
        ELSE IF strip(r3) = <<>> /\ acc.tool_executed THEN ToolExecutedNoResponse
        ELSE IF acc.authorization_required /\ strip(r3) = <<>> THEN AuthorizationGuide
        ELSE IF strip(r3) # <<>> THEN strip(r3) ELSE NoResponse

----------------------------------------------------------------------------
(* The graph: nodes, edges and the prebuilt tool node *)

tool_result(tool_name) ==
    IF tool_name = "Math_Sqrt" THEN <<"4">>
    ELSE IF tool_name \in {"Gmail_WriteDraftEmail", "Gmail_WriteDraftReplyEmail"}
    THEN <<"Draft", "saved">>
    ELSE <<"Email", "from", "bob">>

\* ToolNode(tools): one ToolMessage per tool call of the last message
tool_node(msgs) ==
    [i \in 1..Len(Last(msgs).tool_calls) |->
        ToolMessage(tool_result(Last(msgs).tool_calls[i].name),
                    Last(msgs).tool_calls[i].name)]

\* build_graph: the node that follows node n, given the state after n
a2_build_graph(n, msgs) ==
    CASE n = "agent" -> a2_should_continue(msgs)
      [] n = "authorization" -> "tools"
      [] n = "tools" -> "agent"

\* a slip: the tools node has an edge to itself instead of the agent
a3_build_graph_tools_loop(n, msgs) ==
    CASE n = "agent" -> a3_should_continue(msgs)
      [] n = "authorization" -> "tools"
      [] n = "tools" -> "tools"

a3_build_graph(n, msgs) ==
    CASE n = "agent" -> a3_should_continue(msgs)
      [] n = "authorization" -> "tools"
      [] n = "tools" -> "agent"

\* a slip: the tools node ends the run instead of returning to the agent
cli_build_graph_tools_end(n, msgs) ==
    CASE n = "agent" -> cli_should_continue(msgs)
      [] n = "authorization" -> "tools"
      [] n = "tools" -> END

cli_build_graph(n, msgs) ==
    CASE n = "agent" -> cli_should_continue(msgs)
      [] n = "authorization" -> "tools"
      [] n = "tools" -> "agent"

next_node(c, n, msgs) ==
    CASE c = "a2" -> a2_build_graph(n, msgs)
      [] c \in {"a3", "app"} -> a3_build_graph(n, msgs)
      [] c = "cli" -> cli_build_graph(n, msgs)

\* the messages the agent node of copy c gives to the model
agent_input(c, msgs) ==
    CASE c = "a2" -> msgs
      [] c \in {"a3", "app"} -> a3_messages_with_system(msgs)
      [] c = "cli" -> cli_messages_with_system(msgs)

\* model_with_tools.astream(messages): the response m as a stream of chunks
astream(m) == <<[content |-> m.content, tool_calls |-> m.tool_calls]>>

\* the continuation of a streamed tool call: the pieces of its arguments
\* arrive in chunks whose tool call has no name
unnamed(tc) == [tc EXCEPT !.name = ""]

\* the response m arriving piece by piece: a chunk without anything, one
\* chunk per token of the content, and per tool call a chunk that names it,
\* next to a call with a blank name, and a continuation
pieces(m) ==
    <<[content |-> <<>>, tool_calls |-> <<>>]>>
    \o [i \in 1..Len(m.content) |-> [content |-> <<m.content[i]>>, tool_calls |-> <<>>]]
    \o [i \in 1..(2 * Len(m.tool_calls)) |->
          [content |-> <<>>,
           tool_calls |->
              IF i % 2 = 1
              THEN <<m.tool_calls[(i + 1) \div 2],
                     [m.tool_calls[(i + 1) \div 2] EXCEPT !.name = " "]>>
              ELSE <<unnamed(m.tool_calls[i \div 2])>>]]

\* the streams in which model_with_tools.astream(messages) can deliver m
astreams(m) == {astream(m), pieces(m)}

\* the message the agent node of copy c appends when the model answers m
agent_response(c, m, stream) == IF c = "a2" THEN a2_call_agent(stream) ELSE m

\* the last call of call_agent of a2: the chunks it was given and the calls
\* of the writer it made
NotStreamed == [chunks |-> <<>>, written |-> <<>>]

----------------------------------------------------------------------------
(* The web front ends: text, e-mail data and its formatting *)

WebApps == {"app", "streamlit"}

\* the characters a token stands for: a word counts as 25 characters
char_len(t) == IF t \in Whitespace \cup {"_", "{", "}"} THEN 1 ELSE 25

\* len(s)
RECURSIVE text_len(_)
text_len(s) == IF s = <<>> THEN 0 ELSE char_len(Head(s)) + text_len(Tail(s))

\* s[:n]
RECURSIVE first_chars(_, _)
first_chars(s, n) ==
    IF s = <<>> \/ char_len(Head(s)) > n THEN <<>>
    ELSE <<Head(s)>> \o first_chars(Tail(s), n - char_len(Head(s)))

starts_with(s, p) == Len(s) >= Len(p) /\ SubSeq(s, 1, Len(p)) = p

has_any(s, phrases) == \E p \in phrases : contains(s, p)

\* hash(text): distinct texts of the model have distinct hashes
hash(s) == s

\* an opening tag that carries style="color: ..."
DivStyled == "<div style=color:"

\* '<div' in content or '<span' in content
is_html(s) ==
    \E i \in 1..Len(s) : s[i] \in {"<div", "<span", DivStyled}

\* content.split('\n')
RECURSIVE split_lines(_, _)
split_lines(s, line) ==
    IF s = <<>> THEN <<line>>
    ELSE IF Head(s) = "\n" THEN <<line>> \o split_lines(Tail(s), <<>>)
    ELSE split_lines(Tail(s), Append(line, Head(s)))

\* sep.join(lines)
RECURSIVE join(_, _)
join(lines, sep) ==
    IF lines = <<>> THEN <<>>
    ELSE IF Len(lines) = 1 THEN lines[1]
    ELSE lines[1] \o sep \o join(Tail(lines), sep)

\* the lines that _format_plain_text_email keeps: stripped, not empty, not null
kept_lines(content) ==
    LET stripped == [i \in 1..Len(split_lines(content, <<>>)) |->
                        strip(split_lines(content, <<>>)[i])]
    IN  SelectSeq(stripped, LAMBDA l : l # <<>> /\ lower(l) # <<"null">>)

\* _format_plain_text_email: app.py joins the lines with a blank line,
\* arcade_3_streamlit_app wraps every line in a styled <div>
format_plain_text_email(webapp, content) ==
    IF webapp = "app" THEN join(kept_lines(content), <<"\n", "\n">>)
    ELSE join([i \in 1..Len(kept_lines(content)) |->
                  <<DivStyled>> \o kept_lines(content)[i] \o <<"</div>">>],
              <<"\n">>)

\* _is_email_like_content: the phrases that mark a user query
user_query_indicators ==
    {<<"show", "me">>, <<"what", "emails">>, <<"get", "emails">>,
     <<"find", "emails">>, <<"search", "for", "emails">>, <<"list", "emails">>,
     <<"display", "emails">>, <<"retrieve", "emails">>, <<"draft", "a", "reply">>}

\* the (lower case) tokens in which one of email_indicators occurs
email_indicators ==
    {"emails:", "subject:", "from:", "date:", "to:", "snippet:", "thread_id",
     "body", "email_id", "message_id", "gmail_id", "sender", "recipient",
     "cc:", "bcc:", "email", "emails", "message", "messages",
     "gmail_listemails", "gmail_sendemail", "gmail_writedraftemail",
     "gmail_writedraftreplyemail"}

\* the tokens matched by one of email_structure_patterns
email_structure_patterns ==
    {"subject:", "from:", "date:", "to:", "email:", "message:", "thread:"}

has_token(s, toks) == \E i \in 1..Len(s) : s[i] \in toks

\* the e-mails a tool result can name; a JSON text lists them by name
EmailNames == {"E1", "E2", "E3"}

EmailOf(e) ==
    CASE e = "E1" -> [subject |-> <<"Meeting">>, date |-> <<"Mon">>,
                      snippet |-> <<"see", "you", "there">>]
      [] e = "E2" -> [subject |-> <<"Meeting", " ">>, date |-> <<"Tue">>,
                      snippet |-> <<"see", "you", "then">>]
      [] e = "E3" -> [subject |-> <<>>, date |-> <<"Mon">>,
                      snippet |-> <<"no", "subject">>]

\* content.strip().startswith('{') and content.strip().endswith('}')
is_json_object(content) ==
    LET t == strip(content)
    IN  Len(t) >= 2 /\ Head(t) = "{" /\ t[Len(t)] = "}"

\* json.loads(content) of such a text: {key: values}, or JSONDecodeError when
\* a value is not well formed
json_loads(content) ==
    LET t == strip(content)
        inner == SubSeq(t, 2, Len(t) - 1)
    IN  IF inner = <<>> THEN [ok |-> TRUE, keys |-> {}, emails |-> <<>>]
        ELSE IF Head(inner) = "emails"
        THEN IF \A i \in 2..Len(inner) : inner[i] \in EmailNames
             THEN [ok |-> TRUE, keys |-> {"emails"},
                   emails |-> [i \in 1..(Len(inner) - 1) |-> EmailOf(inner[i + 1])]]
             ELSE [ok |-> FALSE, keys |-> {}, emails |-> <<>>]
        ELSE [ok |-> TRUE, keys |-> {Head(inner)}, emails |-> <<>>]

email_keys == {"emails", "email", "messages", "message", "threads", "thread"}

\* _is_email_like_content
is_email_like_content(content) ==
    LET normalized_content == lower(strip(content)) IN
    IF content = <<>> THEN FALSE
    ELSE IF is_html(content) THEN FALSE
    ELSE IF has_any(normalized_content, user_query_indicators) THEN FALSE
    ELSE IF /\ is_json_object(content)
            /\ json_loads(content).ok
            /\ json_loads(content).keys \cap email_keys # {}
    THEN TRUE
    ELSE IF /\ contains(normalized_content, <<"here", "are">>)
            /\ has_token(normalized_content, {"emails"})
            /\ text_len(content) < 200
    THEN FALSE
    ELSE \/ has_token(lower(content), email_indicators)
         \/ has_token(lower(content), email_structure_patterns)

\* the three module-level sets of arcade_3_streamlit_app, as they are when
\* the script starts to run
NoTracking ==
    [processed_emails_global |-> {},
     processed_email_content_hashes |-> {},
     processed_email_subjects |-> {}]

\* the identifier of an e-mail: subject_date_snippet[:50]
email_id(email) ==
    email.subject \o <<"_">> \o email.date \o <<"_">> \o first_chars(email.snippet, 50)

\* the block that shows one e-mail under its number
email_block(webapp, email_count, email) ==
    IF webapp = "app"
    THEN <<ToString(email_count), ".", "Subject:">> \o email.subject
         \o (IF email.snippet # <<>> THEN <<"Preview:">> \o email.snippet ELSE <<>>)
         \o <<"\n">>
    ELSE <<DivStyled, ToString(email_count), ".">>
         \o (IF email.subject # <<>> THEN <<"Subject:">> \o email.subject
             ELSE <<"Email">>)
         \o (IF email.date # <<>> THEN <<"Date:">> \o email.date ELSE <<>>)
         \o (IF email.snippet # <<>> THEN <<"Snippet:">> \o email.snippet ELSE <<>>)
         \o <<"</div>", "\n">>

\* the loop of _format_json_email_data, had it numbered an e-mail with i of
\* enumerate(data['emails'], 1) instead of email_count
RECURSIVE format_emails_loop_by_index(_, _, _, _)
format_emails_loop_by_index(webapp, emails, i, acc) ==
    IF i > Len(emails) THEN acc
    ELSE
    LET email == emails[i]
        id == email_id(email)
        email_subject == strip(email.subject)
        is_duplicate ==
            IF webapp = "app" THEN id \in acc.processed_in_session
            ELSE \/ id \in acc.tracking.processed_emails_global
                 \/ id \in acc.processed_in_session
                 \/ (email_subject # <<>>
                     /\ email_subject \in acc.tracking.processed_email_subjects)
    IN  IF is_duplicate THEN format_emails_loop_by_index(webapp, emails, i + 1, acc)
        ELSE format_emails_loop_by_index(webapp, emails, i + 1,
               [text |-> acc.text \o email_block(webapp, i, email),
                tracking |->
                   IF webapp = "app" THEN acc.tracking
                   ELSE [acc.tracking EXCEPT
                           !.processed_emails_global = @ \cup {id},
                           !.processed_email_subjects =
                               IF email_subject # <<>> THEN @ \cup {email_subject}
                               ELSE @],
                processed_in_session |-> acc.processed_in_session \cup {id},
                email_count |-> acc.email_count + 1,
                emitted |-> Append(acc.emitted,
                                   [number |-> i, email |-> email, at |-> i])])

\* _format_json_email_data: the loop over data['emails'] from e-mail i on;
\* acc = [text, tracking, processed_in_session, email_count, emitted]
RECURSIVE format_emails_loop(_, _, _, _)
format_emails_loop(webapp, emails, i, acc) ==
    IF i > Len(emails) THEN acc
    ELSE
    LET email == emails[i]
        id == email_id(email)
        email_subject == strip(email.subject)
        is_duplicate ==
            IF webapp = "app" THEN id \in acc.processed_in_session
            ELSE \/ id \in acc.tracking.processed_emails_global
                 \/ id \in acc.processed_in_session
                 \/ (email_subject # <<>>
                     /\ email_subject \in acc.tracking.processed_email_subjects)
    IN  IF is_duplicate THEN format_emails_loop(webapp, emails, i + 1, acc)
        ELSE format_emails_loop(webapp, emails, i + 1,
               [text |-> acc.text \o email_block(webapp, acc.email_count + 1, email),
                tracking |->
                   IF webapp = "app" THEN acc.tracking
                   ELSE [acc.tracking EXCEPT
                           !.processed_emails_global = @ \cup {id},
                           !.processed_email_subjects =
                               IF email_subject # <<>> THEN @ \cup {email_subject}
                               ELSE @],
                processed_in_session |-> acc.processed_in_session \cup {id},
                email_count |-> acc.email_count + 1,
                emitted |-> Append(acc.emitted,
                                   [number |-> acc.email_count + 1, email |-> email,
                                    at |-> i])])

emails_header == <<"Here", "are", "the", "emails", "from", "your", "inbox", "\n">>

\* _format_json_email_data(data), with the tracking sets it reads and updates
format_json_email_data(webapp, data, tr) ==
    IF "emails" \in data.keys
    THEN format_emails_loop(webapp, data.emails, 1,
            [text |-> emails_header, tracking |-> tr, processed_in_session |-> {},
             email_count |-> 0, emitted |-> <<>>])
    ELSE [text |-> <<>>, tracking |-> tr, processed_in_session |-> {},
          email_count |-> 0, emitted |-> <<>>]

\* clear_processed_emails
clear_processed_emails(tr) ==
    [tr EXCEPT !.processed_emails_global = {},
               !.processed_email_content_hashes = {},
               !.processed_email_subjects = {}]

\* the text and the tracking sets of a result of _format_json_email_data
text_and_tracking(r) == [text |-> r.text, tracking |-> r.tracking]

\* _format_email_response(content): [text, tracking]
format_email_response(webapp, content, tr) ==
    LET normalized_content == lower(strip(content))
        content_hash == hash(strip(content))
        tr1 == IF webapp = "app" THEN tr
               ELSE [tr EXCEPT !.processed_email_content_hashes = @ \cup {content_hash}]
    IN  IF has_any(normalized_content,
                   {<<"show", "me">>, <<"what", "emails">>, <<"get", "emails">>,
                    <<"find", "emails">>})
        THEN [text |-> <<>>, tracking |-> tr]
        ELSE IF /\ contains(normalized_content, <<"here", "are">>)
                /\ has_token(normalized_content, {"emails"})
                /\ text_len(content) < 200
        THEN [text |-> <<>>, tracking |-> tr]
        ELSE IF webapp # "app" /\ content_hash \in tr.processed_email_content_hashes
        THEN [text |-> <<>>, tracking |-> tr]
        ELSE IF is_json_object(content) /\ json_loads(content).ok
        THEN text_and_tracking(
                format_json_email_data(webapp, json_loads(content), tr1))
        ELSE [text |-> format_plain_text_email(webapp, content), tracking |-> tr1]

----------------------------------------------------------------------------
(* The web front ends: StreamlitWriter *)

\* StreamlitWriter.__init__ (app.py keeps the content only)
NewWriter ==
    [content |-> <<>>, processed_emails |-> {}, email_content_processed |-> FALSE,
     processed_content_hashes |-> {}, finalized |-> FALSE]

\* StreamlitWriter.reset
writer_reset(w) ==
    [w EXCEPT !.content = <<>>, !.processed_emails = {},
              !.email_content_processed = FALSE,
              !.processed_content_hashes = {}, !.finalized = FALSE]

\* StreamlitWriter._is_duplicate_content: the answer, and the writer after it
is_duplicate_content(w, content) ==
    IF hash(strip(content)) \in w.processed_emails
    THEN [dup |-> TRUE, writer |-> w]
    ELSE [dup |-> FALSE,
          writer |-> [w EXCEPT !.processed_emails = @ \cup {hash(strip(content))}]]

\* StreamlitWriter._is_email_content
writer_is_email_content(text) ==
    /\ ~is_html(text)
    /\ \/ has_token(lower(text), {"subject:", "from:", "date:", "to:", "snippet:",
                                  "thread_id", "body"})
       \/ contains(lower(text), <<"emails", "from">>)
       \/ contains(lower(text), <<"full", "email:">>)

\* StreamlitWriter._format_email_content: [text, tracking]
writer_format_email_content(text, tr) ==
    IF is_json_object(text) /\ json_loads(text).ok
    THEN text_and_tracking(format_json_email_data("streamlit", json_loads(text), tr))
    ELSE [text |-> format_plain_text_email("streamlit", text), tracking |-> tr]

\* content += text, unless _is_duplicate_content(text)
writer_add(w, text) ==
    LET d == is_duplicate_content(w, text)
    IN  IF d.dup THEN d.writer ELSE [d.writer EXCEPT !.content = @ \o text]

\* "\n" unless the text ends with it
newline_after(text) ==
    IF text # <<>> /\ text[Len(text)] = "\n" THEN <<>> ELSE <<"\n">>

\* StreamlitWriter.__call__ of app.py: the new content
app_writer_content(content, text) ==
    IF contains(text, <<"Authorization", "required">>)
    THEN content \o newline_after(content) \o text \o newline_after(text)
    ELSE IF contains(text, <<"Visit", "the", "following", "URL">>)
    THEN content \o newline_after(content) \o text \o <<"\n">>
    ELSE IF contains(text, <<"Waiting", "for", "authorization...">>)
    THEN content \o newline_after(content) \o text \o <<"\n", "\n">>
    ELSE IF \/ starts_with(text, <<"You", "have", "the", "following", "emails">>)
            \/ starts_with(text, <<"From", " ">>)
    THEN content \o newline_after(content) \o text
    ELSE content \o text

\* StreamlitWriter.__call__(text): [writer, placeholder, tracking]
writer_call(webapp, w, ph, tr, text) ==
    IF webapp = "app"
    THEN LET c == app_writer_content(w.content, text)
         IN  [writer |-> [w EXCEPT !.content = c],
              placeholder |-> Append(ph, c), tracking |-> tr]
    ELSE IF text = <<>> \/ strip(text) = <<>> \/ lower(text) = <<"null">>
    THEN [writer |-> w, placeholder |-> ph, tracking |-> tr]
    ELSE IF hash(strip(text)) \in w.processed_content_hashes
    THEN [writer |-> w, placeholder |-> ph, tracking |-> tr]
    ELSE
    LET w1 == [w EXCEPT !.processed_content_hashes = @ \cup {hash(strip(text))}]
    IN  IF is_html(text)
        THEN [writer |-> writer_add(w1, text), placeholder |-> ph, tracking |-> tr]
        ELSE IF writer_is_email_content(text)
        THEN IF ~w1.email_content_processed
             THEN LET f == writer_format_email_content(text, tr)
                      d == is_duplicate_content(w1, f.text)
                  IN  [writer |->
                          IF d.dup THEN d.writer
                          ELSE [d.writer EXCEPT !.content = @ \o f.text,
                                                !.email_content_processed = TRUE],
                       placeholder |-> ph, tracking |-> f.tracking]
             ELSE [writer |-> w1, placeholder |-> ph, tracking |-> tr]
        ELSE [writer |-> writer_add(w1, text), placeholder |-> ph, tracking |-> tr]

\* StreamlitWriter._ensure_visible_text
ensure_visible_text(content) ==
    IF has_token(content, {DivStyled}) THEN content
    ELSE [i \in 1..Len(content) |->
             IF content[i] = "<div" THEN DivStyled ELSE content[i]]

\* content.replace("\n", "  \n")
RECURSIVE markdown_breaks(_)
markdown_breaks(content) ==
    IF content = <<>> THEN <<>>
    ELSE (IF Head(content) = "\n" THEN <<" ", " ", "\n">> ELSE <<Head(content)>>)
         \o markdown_breaks(Tail(content))

\* a slip: finalize does not look at the finalized flag
writer_finalize_again(w, ph) ==
    IF strip(w.content) = <<>>
    THEN [writer |-> w, placeholder |-> ph]
    ELSE [writer |-> [w EXCEPT !.finalized = TRUE],
          placeholder |->
             Append(ph, IF is_html(w.content) THEN ensure_visible_text(w.content)
                        ELSE markdown_breaks(w.content))]

\* StreamlitWriter.finalize: [writer, placeholder]
writer_finalize(w, ph) ==
    IF strip(w.content) = <<>> \/ w.finalized
    THEN [writer |-> w, placeholder |-> ph]
    ELSE [writer |-> [w EXCEPT !.finalized = TRUE],
          placeholder |->
             Append(ph, IF is_html(w.content) THEN ensure_visible_text(w.content)
                        ELSE markdown_breaks(w.content))]

----------------------------------------------------------------------------
(* The web front ends: stream_agent_response *)

\* one entry of the record of an interaction: a node of the graph has run
\* (kind = its name, tools = the names of the tool calls it executed), or the
\* writer was called with a text (kind = what the text is, path = the part of
\* the loop that wrote it, source = the content the text was made from)
NodeEv(name, tools) ==
    [ev |-> "node", kind |-> name, path |-> "", source |-> <<>>, text |-> <<>>,
     tools |-> tools]
WriteEv(kind, path, source, text, tools) ==
    [ev |-> "write", kind |-> kind, path |-> path, source |-> source,
     text |-> text, tools |-> tools]

\* the locals of stream_agent_response before its loop, with the writer it
\* creates and the tracking sets as they are
NewStream(user_input, tr) ==
    [user_input |-> user_input, processed_content |-> {}, full_response |-> <<>>,
     email_content_processed |-> FALSE, tool_calls_made |-> <<>>,
     writer |-> NewWriter, placeholder |-> <<>>, tracking |-> tr, log |-> <<>>]

\* the locals once the writer has been called with result r
written(st, r, entry) ==
    [st EXCEPT !.writer = r.writer, !.placeholder = r.placeholder,
               !.tracking = r.tracking, !.log = Append(@, entry)]

\* writer(text); full_response += text
put_write(webapp, st, kind, path, source, text, tools) ==
    written([st EXCEPT !.full_response = @ \o text],
            writer_call(webapp, st.writer, st.placeholder, st.tracking, text),
            WriteEv(kind, path, source, text, tools))

\* formatted = _format_email_response(content), f; if formatted: write it
email_written(webapp, st, path, content, f) ==
    IF f.text # <<>>
    THEN [put_write(webapp, [st EXCEPT !.tracking = f.tracking], "email", path,
                    content, f.text, <<>>)
             EXCEPT !.email_content_processed = TRUE]
    ELSE [st EXCEPT !.tracking = f.tracking]

\* what every path of the loop does with a content it has accepted
handle_content(webapp, st, path, content) ==
    IF is_email_like_content(content)
    THEN IF ~st.email_content_processed
         THEN email_written(webapp, st, path, content,
                            format_email_response(webapp, content, st.tracking))
         ELSE st
    ELSE IF lower(strip(content)) # lower(strip(st.user_input))
    THEN put_write(webapp, st, "content", path, content, content, <<>>)
    ELSE st

\* a slip: the contents seen are not looked up
content_path_unseen(webapp, st, last_message) ==
    IF valid_content(last_message.content)
    THEN handle_content(webapp, st, "content", last_message.content)
    ELSE st

\* the path of last_message.content, with the hashes of the contents seen
content_path(webapp, st, last_message) ==
    LET content == last_message.content
    IN  IF valid_content(content) /\ hash(strip(content)) \notin st.processed_content
        THEN handle_content(webapp,
                [st EXCEPT !.processed_content = @ \cup {hash(strip(content))}],
                "content", content)
        ELSE st

\* a path over a list of contents: tool_results (each tool result given by
\* the value of its first content/output/result/data key), the "tool_results"
\* of additional_kwargs, the other string fields of the message object
RECURSIVE contents_path(_, _, _, _)
contents_path(webapp, st, path, contents) ==
    IF contents = <<>> THEN st
    ELSE contents_path(webapp,
            IF valid_content(Head(contents))
            THEN handle_content(webapp, st, path, Head(contents)) ELSE st,
            path, Tail(contents))

\* hasattr(last_message, name) and the attribute, else nothing
attr(last_message, name) ==
    IF name \in DOMAIN last_message THEN last_message[name] ELSE <<>>

\* tool_call.get('args', {}).get(key, default): <<>> stands for a missing or
\* an empty value
tool_arg(tool_call, key) ==
    IF "args" \in DOMAIN tool_call /\ key \in DOMAIN tool_call.args
    THEN tool_call.args[key] ELSE <<>>

DraftTools == {"Gmail_WriteDraftEmail", "Gmail_WriteDraftReplyEmail"}

\* the heading that says the draft has been created
created_successfully(webapp, tool_name) ==
    IF tool_name = "Gmail_WriteDraftEmail"
    THEN <<"Draft", "Email", "Created", "Successfully!">>
    ELSE IF webapp = "app" THEN <<"Draft", "Reply", "Created", "Successfully!">>
    ELSE <<"Draft", "Reply", "Email", "Created", "Successfully!">>

\* app.py: draft_summary / draft_reply_summary
app_draft_summary(tool_call) ==
    created_successfully("app", tool_call.name)
    \o <<"To">> \o tool_arg(tool_call, "recipient")
    \o <<"Draft", "Content">> \o tool_arg(tool_call, "body")
    \o <<"saved", "to", "your", "Gmail", "drafts", "folder">>

\* app.py: "for tool_call in last_message.tool_calls": the first draft tool
\* call is summarised
RECURSIVE app_tool_calls_path(_, _)
app_tool_calls_path(st, tool_calls) ==
    IF tool_calls = <<>> THEN st
    ELSE IF Head(tool_calls).name \in DraftTools
    THEN put_write("app", st, "summary", "tool_calls", <<>>,
                   app_draft_summary(Head(tool_calls)), <<Head(tool_calls).name>>)
    ELSE app_tool_calls_path(st, Tail(tool_calls))

\* the body of "for chunk in graph.stream(..., stream_mode="values")" for a
\* chunk whose last message is last_message
stream_chunk(webapp, st, last_message) ==
    IF webapp = "app"
    THEN \* content, tool_calls, tool_results, additional_kwargs
         contents_path(webapp,
            contents_path(webapp,
               app_tool_calls_path(content_path(webapp, st, last_message),
                                   last_message.tool_calls),
               "tool_results", attr(last_message, "tool_results")),
            "additional_kwargs", attr(last_message, "kwargs_tool_results"))
    ELSE \* content, tool_results, additional_kwargs, the other fields,
         \* tool_results once more, then tool_calls_made.extend(tool_calls)
         [contents_path(webapp,
            contents_path(webapp,
               contents_path(webapp,
                  contents_path(webapp, content_path(webapp, st, last_message),
                                "tool_results", attr(last_message, "tool_results")),
                  "additional_kwargs", attr(last_message, "kwargs_tool_results")),
               "extra", attr(last_message, "extra")),
            "tool_results", attr(last_message, "tool_results"))
          EXCEPT !.tool_calls_made = @ \o last_message.tool_calls]

\* arcade_3_streamlit_app: the summary of a draft tool call
streamlit_draft_summary(tool_call) ==
    IF \/ tool_arg(tool_call, "body") = <<>>
       \/ strip(tool_arg(tool_call, "body")) = <<>>
       \/ (tool_call.name = "Gmail_WriteDraftEmail"
           /\ tool_arg(tool_call, "recipient") = <<>>)
    THEN <<"Draft", "Email", "Creation", "Issue">>
         \o <<"Subject:">> \o tool_arg(tool_call, "subject")
    ELSE created_successfully("streamlit", tool_call.name)
         \o <<"Subject:">> \o tool_arg(tool_call, "subject")
         \o <<"saved", "to", "your", "Gmail", "drafts", "folder">>

email_search_summary == <<"Email", "Search", "Completed!">>

\* arcade_3_streamlit_app: "for tool_call in tool_calls_made", after the loop
RECURSIVE streamlit_summaries(_, _)
streamlit_summaries(st, tool_calls_made) ==
    IF tool_calls_made = <<>> THEN st
    ELSE LET tool_call == Head(tool_calls_made) IN
         IF tool_call.name \in DraftTools
         THEN put_write("streamlit", st, "summary", "end", <<>>,
                        streamlit_draft_summary(tool_call), <<tool_call.name>>)
         ELSE IF tool_call.name = "Gmail_ListEmails" /\ strip(st.full_response) = <<>>
         THEN put_write("streamlit", st, "summary", "end", <<>>,
                        email_search_summary, <<tool_call.name>>)
         ELSE streamlit_summaries(st, Tail(tool_calls_made))

error_processing_request == <<"Error", "processing", "request">>

\* error_msg = f"Error processing request: {str(e)}"
error_message(e) == error_processing_request \o <<":">> \o e

\* arcade_3_streamlit_app: the summaries written once the loop is left
summarised(st) == streamlit_summaries(st, st.tool_calls_made)

\* the locals once finalize() has returned f
with_writer(st, f) == [st EXCEPT !.writer = f.writer, !.placeholder = f.placeholder]

\* arcade_3_streamlit_app: writer.finalize(); return full_response.strip()
finalized(st) ==
    [response |-> strip(st.full_response),
     st |-> with_writer(st, writer_finalize(st.writer, st.placeholder))]

\* what stream_agent_response does once the stream is exhausted, or has
\* raised e: [response, st]
stream_end(webapp, st, raised, e) ==
    IF webapp = "app"
    THEN IF raised
         THEN [response |-> error_message(e),
               st |-> written(st,
                              writer_call("app", st.writer, st.placeholder,
                                          st.tracking, error_message(e)),
                              WriteEv("error", "end", <<>>, error_message(e), <<>>))]
         ELSE [response |-> st.full_response, st |-> st]
    ELSE finalized(summarised(
            IF raised
            THEN put_write(webapp, st, "error", "end", <<>>, error_message(e), <<>>)
            ELSE st))

----------------------------------------------------------------------------
(* The web front ends: the session and one agent interaction *)

\* one entry of st.session_state.messages
Entry(role, content) == [role |-> role, content |-> content]

\* stream_agent_response: the conversation history as messages; only
\* arcade_3_streamlit_app skips the assistant entries that hold an error
RECURSIVE history_messages(_, _)
history_messages(webapp, history) ==
    IF history = <<>> THEN <<>>
    ELSE LET msg == Head(history)
             rest == history_messages(webapp, Tail(history))
         IN  IF msg.role = "user" THEN <<HumanMessage(msg.content)>> \o rest
             ELSE IF /\ msg.role = "assistant"
                     /\ (webapp = "app"
                         \/ ~contains(msg.content, error_processing_request))
             THEN <<AIMessage(msg.content, <<>>)>> \o rest
             ELSE rest

\* stream_agent_response: inputs["messages"]
stream_inputs(webapp, history, user_input) ==
    history_messages(webapp, history) \o <<HumanMessage(user_input)>>

\* graph.stream(inputs, config, stream_mode="values") consumed by the loop of
\* stream_agent_response: the chunk of the state reached is handled, then
\* node n runs.  The graph is the one of arcade_3_agent_with_memory; the
\* model answers run.calls, one message with tool calls per visit of the
\* agent node, and then run.final.  [st, raised, e]
RECURSIVE graph_stream(_, _, _, _, _, _, _)
RECURSIVE graph_node(_, _, _, _, _, _, _)
RECURSIVE graph_authorized(_, _, _, _, _, _)
graph_stream(webapp, st, msgs, n, run, granted, willGrant) ==
    graph_node(webapp, stream_chunk(webapp, st, Last(msgs)), msgs, n, run,
               granted, willGrant)

\* node n runs after the chunk has been handled (st are the locals after it)
graph_node(webapp, st, msgs, n, run, granted, willGrant) ==
    IF n = END THEN [st |-> st, raised |-> FALSE, e |-> <<>>]
    ELSE IF n = "agent"
    THEN LET m == IF run.calls # <<>> THEN Head(run.calls) ELSE run.final
             msgs2 == Append(msgs, m)
             run2 == IF run.calls # <<>> THEN [run EXCEPT !.calls = Tail(@)] ELSE run
         IN  graph_stream(webapp,
                          [st EXCEPT !.log = Append(@, NodeEv("agent", <<>>))],
                          msgs2, a3_build_graph("agent", msgs2), run2,
                          granted, willGrant)
    ELSE IF n = "authorization"
    THEN graph_authorized(webapp,
            [st EXCEPT !.log = Append(@, NodeEv("authorization", <<>>))],
            msgs, run, willGrant,
            a3_authorize(msgs, call_args("none", <<>>), call_kwargs("none", <<>>),
                         granted, willGrant))
    ELSE LET msgs2 == msgs \o tool_node(msgs)
             names == [i \in 1..Len(Last(msgs).tool_calls) |->
                          Last(msgs).tool_calls[i].name]
         IN  graph_stream(webapp,
                          [st EXCEPT !.log = Append(@, NodeEv("tools", names))],
                          msgs2, a3_build_graph("tools", msgs2), run,
                          granted, willGrant)

\* the authorization node has returned, or raised: r
graph_authorized(webapp, st, msgs, run, willGrant, r) ==
    IF r.outcome # "return"
    THEN [st |-> st, raised |-> TRUE, e |-> <<"Authorization", "failed">>]
    ELSE graph_stream(webapp, st, msgs \o r.msgs,
                      a3_build_graph("authorization", msgs \o r.msgs),
                      run, r.granted, willGrant)

\* the loop is left because the stream r is exhausted or has raised
stream_left(webapp, r) == stream_end(webapp, r.st, r.raised, r.e)

\* what an interaction gives its caller: whether it raised, the inputs of the
\* graph, the response e.response and the locals e.st
interaction_result(raised, inputs, e) ==
    [raised |-> raised, inputs |-> inputs, response |-> e.response, st |-> e.st]

\* stream_agent_response(user_input, graph, config, placeholder), the session
\* history being `history`: [raised, inputs, response, st]
stream_agent_response(webapp, user_input, history, run, willGrant, tr) ==
    LET inputs == stream_inputs(webapp, history, user_input)
        st0 == NewStream(user_input, tr)
        st1 == IF webapp = "streamlit" /\ Len(inputs) <= 1
               THEN [st0 EXCEPT !.writer = writer_reset(@)] ELSE st0
    IN  interaction_result(FALSE, inputs,
           stream_left(webapp,
                       graph_stream(webapp, st1, inputs, "agent", run, {}, willGrant)))

\* run_agent_interaction: build_graph() (and, in app.py, the database
\* connections) may raise.  arcade_3_streamlit_app catches it and returns an
\* error text; app.py lets it through.  [raised, inputs, response, st]
run_agent_interaction(webapp, user_input, history, run, willGrant, build_ok, tr) ==
    IF build_ok
    THEN stream_agent_response(webapp, user_input, history, run, willGrant, tr)
    ELSE [raised |-> webapp = "app", inputs |-> <<>>,
          response |-> IF webapp = "app" THEN <<"build", "failed">>
                       ELSE <<"Error", "during", "agent", "interaction", ":",
                              "build", "failed">>,
          st |-> NewStream(user_input, tr)]

\* run_agent_interaction: config["configurable"]["user_id"] for the signed-in
\* account user_email
agent_user_id(webapp, user_email) ==
    IF webapp = "app" THEN user_email ELSE replace_dots(user_email)

\* arcade_3_streamlit_app, main chat: an assistant text that is neither HTML
\* nor e-mail like is shown as it is, an e-mail like one goes through
\* _format_email_response
shown_through_format(tr, content) ==
    IF ~is_html(content) /\ is_email_like_content(content)
    THEN format_email_response("streamlit", content, tr).tracking
    ELSE tr

\* arcade_3_streamlit_app, main chat: "for message in st.session_state.messages"
RECURSIVE render_history(_, _)
render_history(tr, history) ==
    IF history = <<>> THEN tr
    ELSE render_history(IF Head(history).role = "assistant"
                        THEN shown_through_format(tr, Head(history).content)
                        ELSE tr,
                        Tail(history))

\* a slip: when the interaction raises, only the error is added
app_chat_error_only(history, prompt_text, r) ==
    [messages |-> IF r.raised
                  THEN Append(history,
                              Entry("assistant", <<"Error", ":">> \o r.response))
                  ELSE history \o <<Entry("user", prompt_text),
                                    Entry("assistant", r.response)>>,
     run |-> r, tracking |-> NoTracking]

\* app.py: the interaction has returned or raised (r); both entries are added
app_chat(history, prompt_text, r) ==
    [messages |-> history
                  \o <<Entry("user", prompt_text),
                       Entry("assistant",
                             IF r.raised THEN <<"Error", ":">> \o r.response
                             ELSE r.response)>>,
     run |-> r, tracking |-> NoTracking]

\* arcade_3_streamlit_app: the prompt is in the history already; the response
\* r.response is shown and added
streamlit_chat(history, r) ==
    [messages |-> Append(history, Entry("assistant", r.response)),
     run |-> r,
     tracking |-> shown_through_format(r.st.tracking, r.response)]

\* the main chat interface once a prompt is entered: [messages, run, tracking]
chat_input(webapp, ss, prompt_text, run, willGrant, build_ok) ==
    IF webapp = "app"
    THEN app_chat(ss.messages, prompt_text,
                  run_agent_interaction(webapp, prompt_text, ss.messages, run,
                                        willGrant, build_ok, NoTracking))
    ELSE streamlit_chat(Append(ss.messages, Entry("user", prompt_text)),
                        run_agent_interaction(webapp, prompt_text,
                            Append(ss.messages, Entry("user", prompt_text)), run,
                            willGrant, build_ok,
                            render_history(NoTracking, ss.messages)))

\* a slip: the session is marked authenticated whatever the response holds
sign_in_unchecked(ss, response_user) ==
    [ss EXCEPT !.authenticated = TRUE, !.user = response_user]

\* sign_in / sign_up: response.user is the account, or None
sign_in(ss, response_user) ==
    IF response_user # NoneId
    THEN [ss EXCEPT !.authenticated = TRUE, !.user = response_user]
    ELSE ss

sign_up(ss, response_user) ==
    IF response_user # NoneId
    THEN [ss EXCEPT !.authenticated = TRUE, !.user = response_user]
    ELSE ss

\* a slip: the history survives the sign-out
sign_out_keeps_history(ss, raises, new_thread_id) ==
    IF raises THEN ss
    ELSE [ss EXCEPT !.authenticated = FALSE, !.user = NoneId,
                    !.thread_id = new_thread_id, !.logout_requested = TRUE]

\* sign_out: supabase_client.auth.sign_out() may raise
sign_out(ss, raises, new_thread_id) ==
    IF raises THEN ss
    ELSE [ss EXCEPT !.authenticated = FALSE, !.user = NoneId, !.messages = <<>>,
                    !.thread_id = new_thread_id, !.logout_requested = TRUE]

\* the top of the script: the logout flag is cleared, and the script reruns
logout_check(ss) == [ss EXCEPT !.logout_requested = FALSE]

\* a slip: the conversation keeps its thread
new_conversation_same_thread(ss, new_thread_id) ==
    [ss EXCEPT !.messages = <<>>]

\* the "New Conversation" button
new_conversation(ss, new_thread_id) ==
    [ss EXCEPT !.messages = <<>>, !.thread_id = new_thread_id]

\* the "Clean Errors" button of arcade_3_streamlit_app
clean_errors(ss) ==
    [ss EXCEPT !.messages =
        SelectSeq(@, LAMBDA msg : ~(msg.role = "assistant"
                                    /\ contains(msg.content, error_processing_request)))]

\* the sidebar shows Logout, New Conversation and Clean Errors
sidebar_signed_in(ss) == ss.authenticated /\ ss.user # NoneId

\* the condition under which the main chat interface is run
chat_shown(webapp, ss) ==
    IF webapp = "app" THEN ss.authenticated /\ ss.user # NoneId
    ELSE ss.authenticated

\* what is known of the last agent interaction (the session as it was when the
\* interaction was started, its inputs, its record and its response), of the
\* chunks of a stream or the operations on a writer since its last reset
\* (calls), and of the e-mails rendered by the last call of the formatter
\* (emitted, of the e-mails data) and since the last clear_processed_emails
\* (rendered)
NoInteraction ==
    [called |-> FALSE, authenticated |-> FALSE, user |-> NoneId,
     prompt |-> <<>>, history |-> <<>>, inputs |-> <<>>, log |-> <<>>,
     response |-> <<>>, failed |-> FALSE, calls |-> <<>>, rendered |-> <<>>,
     emitted |-> <<>>, data |-> <<>>]

\* the values uuid.uuid4() can give
ThreadIds == {"t1", "t2"}

\* the module-level assignments of the tracking sets, run by every execution
\* of the script of arcade_3_streamlit_app
script_start(tr) ==
    [tr EXCEPT !.processed_emails_global = {},
               !.processed_email_content_hashes = {},
               !.processed_email_subjects = {}]

NewSession ==
    [messages |-> <<>>, authenticated |-> FALSE, user |-> NoneId,
     thread_id |-> "t1", logout_requested |-> FALSE]

\* the web front ends at rest
WebStart(kind, webapp) ==
    /\ scene = [kind |-> kind, webapp |-> webapp, steps |-> 0, cleaned |-> FALSE,
                handler |-> "none", identities |-> {}]
    /\ session_state = NewSession
    /\ tracking = NoTracking
    /\ writer = NewWriter
    /\ placeholder = <<>>
    /\ streaming = NewStream(<<"Hello">>, NoTracking)
    /\ interaction = NoInteraction

----------------------------------------------------------------------------
(* The environment: the model, the user, the caller of the graph *)

\* the account e-mail of the run (EMAIL / the signed-in user), as characters
Emails == {<<"a", ".", "b", "@", "x">>}

prompt == <<"show", "my", "emails">>

ToolCallSeqs ==
    UNION {[1..n -> {[name |-> t] : t \in ToolNames}] : n \in 1..MaxCalls}

FinalContents == {<<"Hello">>, <<"Hello", "there">>, <<>>}

\* what the model may answer in a run of a2, a3, cli
ModelOutputs ==
    {AIMessage(c, <<>>) : c \in FinalContents}
    \cup {AIMessage(<<>>, tc) : tc \in ToolCallSeqs}

\* what the model may answer in a run of app: it may ask for a tool forever
AppOutputs ==
    {AIMessage(<<"Hello">>, <<>>),
     AIMessage(<<>>, <<[name |-> "Gmail_ListEmails"]>>)}

AppMode == node["app"] # "idle"

Running == {"agent", "authorization", "tools"}
Stopped == {END, "error"}

\* the longest history a run can build, plus slack
HistoryCap(c) ==
    IF c = "app" THEN 1 + recursion_limit + HistorySlack
    ELSE 2 + MaxRounds * (MaxCalls + 2) + HistorySlack

\* the step limit of the run of copy c: <<>> when its caller sets none
step_limit(c) == config[c].recursion_limit

\* the framework raises GraphRecursionError instead of running another step
out_of_steps(c) == step_limit(c) # <<>> /\ steps[c] >= step_limit(c)[1]

\* the most steps a run can take, plus slack
StepCap(c) ==
    IF c = "app" THEN recursion_limit + HistorySlack
    ELSE 1 + 3 * MaxRounds + HistorySlack

CanStep(c) ==
    /\ node[c] \in Running
    /\ ~out_of_steps(c)
    /\ Len(messages[c]) <= HistoryCap(c)
    /\ steps[c] <= StepCap(c)

At(n) == {c \in Copies : node[c] = n /\ CanStep(c)}

----------------------------------------------------------------------------
(* Initial states: one run of a2, a3 and cli side by side, or one of app *)

GraphStart(active, email, hasUser, conv) ==
    /\ node = [c \in Copies |-> IF c \in active THEN "agent" ELSE "idle"]
    /\ messages = [c \in Copies |->
                     IF c \in active THEN <<HumanMessage(prompt)>> ELSE <<>>]
    /\ trace = [c \in Copies |-> <<>>]
    /\ steps = [c \in Copies |-> 0]
    /\ err = [c \in Copies |-> "none"]
    /\ rounds = 0
    /\ authorized = [c \in Copies |-> {}]
    /\ authLog = [c \in Copies |-> <<>>]
    /\ authUser = [c \in Copies |-> NoneId]
    /\ executed = [c \in Copies |-> <<>>]
    /\ modelInput = [c \in Copies |-> <<>>]
    /\ config = [c \in Copies |->
                   [thread_id |-> "4",
                    user_id |-> IF c = "cli" THEN replace_dots(email)
                                ELSE IF hasUser THEN email ELSE Absent,
                    recursion_limit |-> IF c = "app" THEN <<recursion_limit>>
                                        ELSE <<>>,
                    user_email |-> email]]
    /\ convention = conv
    /\ chunks = <<>>
    /\ returned = <<>>
    /\ streamed = NotStreamed

\* a run of the graphs: the web front ends stay at rest
InitFor(active, email, hasUser, conv) ==
    /\ GraphStart(active, email, hasUser, conv)
    /\ WebStart("idle", "app")

Init ==
    \E email \in Emails, hasUser \in BOOLEAN, conv \in Conventions :
        \/ InitFor(Trio, email, hasUser, conv)
        \/ InitFor({"app"}, email, hasUser, conv)

----------------------------------------------------------------------------
(* Actions: one per node of the graph, taken by every copy that is there *)

\* the agent node (call_agent / _call_agent) and the conditional edge
CallAgent ==
    /\ At("agent") # {}
    /\ \E m \in (IF AppMode THEN AppOutputs ELSE ModelOutputs) :
       \E stream \in (IF "a2" \in At("agent") THEN astreams(m) ELSE {astream(m)}) :
         /\ (m.tool_calls # <<>> /\ ~AppMode) => rounds < MaxRounds
         /\ LET S == At("agent")
                new(c) == Append(messages[c], agent_response(c, m, stream))
            IN  /\ modelInput' = [c \in Copies |->
                      IF c \in S THEN agent_input(c, messages[c]) ELSE modelInput[c]]
                /\ messages' = [c \in Copies |->
                      IF c \in S THEN new(c) ELSE messages[c]]
                /\ node' = [c \in Copies |->
                      IF c \in S THEN next_node(c, "agent", new(c)) ELSE node[c]]
                /\ trace' = [c \in Copies |->
                      IF c \in S THEN Append(trace[c], "agent") ELSE trace[c]]
                /\ steps' = [c \in Copies |->
                      IF c \in S THEN steps[c] + 1 ELSE steps[c]]
                /\ chunks' = IF "cli" \in S
                             THEN Append(chunks,
                                    astream_chunk(cli_stream_mode, "agent",
                                                  <<agent_response("cli", m, stream)>>,
                                                  new("cli")))
                             ELSE chunks
                /\ streamed' = IF "a2" \in S
                               THEN [chunks |-> stream, written |-> a2_writer(stream)]
                               ELSE streamed
                /\ rounds' = IF m.tool_calls # <<>> THEN rounds + 1 ELSE rounds
    /\ UNCHANGED <<err, authorized, authLog, authUser, executed, config,
                   convention, returned, webvars>>

\* what the authorization node of copy c does, the user granting willGrant
authorize_result(c, willGrant) ==
    CASE c = "a2" -> a2_authorize(messages[c], config[c], authorized[c], willGrant)
      [] c \in {"a3", "app"} ->
            a3_authorize(messages[c], call_args(convention, config[c]),
                         call_kwargs(convention, config[c]),
                         authorized[c], willGrant)
      [] c = "cli" -> cli_authorize(messages[c], config[c], config[c].user_email,
                                    authorized[c], willGrant)

\* the user id the authorization node of copy c hands to manager.authorize
authorize_user(c) ==
    CASE c = "a2" -> get_user_id(config[c], NoneId)
      [] c \in {"a3", "app"} ->
            a3_user_id(call_args(convention, config[c]),
                       call_kwargs(convention, config[c]))
      [] c = "cli" -> get_user_id(config[c], replace_dots(config[c].user_email))

\* the authorization node (authorize / _authorize) and its edge to tools
Authorize ==
    /\ At("authorization") # {}
    /\ \E willGrant \in SUBSET AuthTools :
         LET S == At("authorization")
             r(c) == authorize_result(c, willGrant)
             raised(c) == r(c).outcome # "return"
             new(c) == messages[c] \o r(c).msgs
         IN  /\ messages' = [c \in Copies |->
                   IF c \in S /\ ~raised(c) THEN new(c) ELSE messages[c]]
             /\ node' = [c \in Copies |->
                   IF c \notin S THEN node[c]
                   ELSE IF raised(c) THEN "error"
                   ELSE next_node(c, "authorization", new(c))]
             /\ err' = [c \in Copies |->
                   IF c \in S /\ raised(c) THEN r(c).outcome ELSE err[c]]
             /\ authorized' = [c \in Copies |->
                   IF c \in S THEN r(c).granted ELSE authorized[c]]
             /\ authLog' = [c \in Copies |->
                   IF c \in S THEN r(c).log ELSE authLog[c]]
             /\ authUser' = [c \in Copies |->
                   IF c \in S THEN authorize_user(c) ELSE authUser[c]]
             /\ trace' = [c \in Copies |->
                   IF c \in S THEN Append(trace[c], "authorization") ELSE trace[c]]
             /\ steps' = [c \in Copies |->
                   IF c \in S THEN steps[c] + 1 ELSE steps[c]]
             /\ chunks' = IF "cli" \in S /\ ~raised("cli")
                          THEN Append(chunks,
                                 astream_chunk(cli_stream_mode, "authorization",
                                               r("cli").msgs, new("cli")))
                          ELSE chunks
    /\ UNCHANGED <<rounds, executed, modelInput, config, convention, returned,
                   streamed, webvars>>

\* the tools node (ToolNode) and its edge back to the agent
Tools ==
    /\ At("tools") # {}
    /\ LET S == At("tools")
           new(c) == messages[c] \o tool_node(messages[c])
       IN  /\ messages' = [c \in Copies |->
                 IF c \in S THEN new(c) ELSE messages[c]]
           /\ executed' = [c \in Copies |->
                 IF c \in S
                 THEN [i \in 1..Len(Last(messages[c]).tool_calls) |->
                          Last(messages[c]).tool_calls[i].name]
                 ELSE executed[c]]
           /\ node' = [c \in Copies |->
                 IF c \in S THEN next_node(c, "tools", new(c)) ELSE node[c]]
           /\ trace' = [c \in Copies |->
                 IF c \in S THEN Append(trace[c], "tools") ELSE trace[c]]
           /\ steps' = [c \in Copies |->
                 IF c \in S THEN steps[c] + 1 ELSE steps[c]]
           /\ chunks' = IF "cli" \in S
                        THEN Append(chunks,
                               astream_chunk(cli_stream_mode, "tools",
                                             tool_node(messages["cli"]), new("cli")))
                        ELSE chunks
    /\ UNCHANGED <<err, rounds, authorized, authLog, authUser, modelInput,
                   config, convention, returned, streamed, webvars>>

\* the framework stops a run that has used up its recursion_limit
RecursionLimit ==
    /\ \E c \in Copies :
         /\ node[c] \in Running
         /\ out_of_steps(c)
         /\ node' = [node EXCEPT ![c] = "error"]
         /\ err' = [err EXCEPT ![c] = "GraphRecursionError"]
    /\ UNCHANGED <<messages, trace, steps, rounds, authorized, authLog, authUser,
                   executed, modelInput, config, convention, chunks, returned,
                   streamed, webvars>>

\* GmailCLIAssistant.process_command returns once its stream is exhausted
ProcessCommand ==
    /\ node["cli"] = END
    /\ returned = <<>>
    /\ returned' = process_command(chunks, messages["cli"])
    /\ UNCHANGED <<node, messages, trace, steps, err, rounds, authorized, authLog,
                   authUser, executed, modelInput, config, convention, chunks,
                   streamed, webvars>>

Next == CallAgent \/ Authorize \/ Tools \/ RecursionLimit \/ ProcessCommand

Spec == Init /\ [][Next]_vars

\* every model call, authorization and tool execution returns: a node that
\* can run does run, and the framework does raise when the limit is reached
FairSpec ==
    /\ Spec
    /\ WF_vars(CallAgent) /\ WF_vars(Authorize) /\ WF_vars(Tools)
    /\ WF_vars(RecursionLimit)

TypeOK ==
    /\ \A c \in Copies : node[c] \in Running \cup Stopped \cup {"idle"}
    /\ \A c \in Copies : err[c] \in {"none", "ValueError", "GraphRecursionError"}
    /\ rounds \in 0..(recursion_limit + 1)

----------------------------------------------------------------------------
(* The web front ends: environment, initial states and actions *)

WebPrompts == {<<"Show", "me", "emails">>, <<"Hello">>}

draft_args ==
    [subject |-> <<"hi">>, recipient |-> <<"bob">>, body |-> <<"see", "you">>]

\* what the model answers in the run of one prompt: the tool calls it asks
\* for, then its final answer
WebRuns ==
    {[calls |-> <<>>, final |-> AIMessage(<<"Hello">>, <<>>)]}
    \cup {[calls |-> <<AIMessage(<<>>, <<[name |-> t, args |-> draft_args]>>)>>,
           final |-> AIMessage(<<"Done">>, <<>>)]
          : t \in {"Gmail_ListEmails"} \cup DraftTools}

\* the surroundings of one prompt: the run of the model, the tools the user
\* grants when asked, and whether build_graph() succeeds
WebEnvs ==
    {[run |-> r, willGrant |-> {"Gmail_ListEmails"} \cup DraftTools,
      build_ok |-> TRUE] : r \in WebRuns}
    \cup {[run |-> r, willGrant |-> {}, build_ok |-> TRUE]
            : r \in {x \in WebRuns : x.calls # <<>>
                                     /\ x.calls[1].tool_calls[1].name
                                            = "Gmail_WriteDraftEmail"}}
    \cup {[run |-> r, willGrant |-> {}, build_ok |-> FALSE]
            : r \in {x \in WebRuns : x.calls = <<>>}}

\* a message object with the optional attributes the loop looks for
WithResults(m, tool_results, kwargs_tool_results, extra) ==
    [type |-> m.type, content |-> m.content, tool_calls |-> m.tool_calls,
     name |-> m.name, tool_results |-> tool_results,
     kwargs_tool_results |-> kwargs_tool_results, extra |-> extra]

StreamContents ==
    {<<"Hello">>, <<"Hello", " ">>, <<"Done">>, <<"Subject:", "Meeting">>,
     <<"From:", "bob">>}

\* the last messages of the chunks of a stream
StreamMessages ==
    {WithResults(AIMessage(c, <<>>), <<>>, <<>>, <<>>) : c \in StreamContents}
    \cup {WithResults(AIMessage(<<>>, <<>>), <<c>>, <<>>, <<>>)
            : c \in {<<"Subject:", "Meeting">>, <<"Done">>}}
    \cup {WithResults(AIMessage(<<>>, <<>>), <<>>, <<c>>, <<>>)
            : c \in {<<"From:", "bob">>}}
    \cup {WithResults(AIMessage(<<>>, <<>>), <<>>, <<>>, <<c>>)
            : c \in {<<"Subject:", "Meeting">>}}
    \cup {WithResults(AIMessage(<<>>, <<[name |-> "Gmail_WriteDraftEmail",
                                         args |-> draft_args]>>),
                      <<>>, <<>>, <<>>)}

\* the texts the writer is called with
WriterTexts ==
    {<<>>, <<" ">>, <<"null">>, <<"Hello">>, <<"Hello", " ">>,
     <<"Subject:", "Meeting">>, <<"From:", "bob">>,
     <<DivStyled, "Subject:", "Meeting", "</div>">>, <<"<div", "Hi", "</div>">>}

\* the JSON texts the formatter is called with
JsonTexts ==
    {<<"{", "emails">> \o es \o <<"}">>
        : es \in UNION {[1..n -> EmailNames] : n \in 0..MaxEmails}}
    \cup {<<"{", "draft", "}">>}

\* what is exercised, and of which app
WebScenes ==
    {<<"session", "app">>, <<"session", "streamlit">>,
     <<"accounts", "app">>, <<"accounts", "streamlit">>,
     <<"stream", "app">>, <<"stream", "streamlit">>,
     <<"writer", "streamlit">>,
     <<"format", "app">>, <<"format", "streamlit">>}

\* a browser session, a stream, a writer or a formatter: no graph is run
\* by the caller of the graph model
WebInit ==
    /\ \E email \in Emails : GraphStart({}, email, FALSE, "none")
    /\ \E sc \in WebScenes : WebStart(sc[1], sc[2])

InScene(kind) == scene.kind = kind

\* scene.steps counts the operations of a stream, writer or formatter scene;
\* scene.handler is the handler the session or the formatter scene ran
\* last; scene.cleaned says that Clean Errors has removed an entry since the
\* history was last empty; scene.identities holds, for every interaction so
\* far, the account and the user_id given to the agent configuration
Step == [scene EXCEPT !.steps = @ + 1]
Ran(handler) == [scene EXCEPT !.handler = handler]

\* what an action of the session leaves alone
SessionFrame == UNCHANGED <<graphvars, writer, placeholder, streaming>>

\* a browser session: one account and all of the page (session), or several
\* accounts that sign in, ask and sign out (accounts)
InSession == scene.kind \in {"session", "accounts"}

\* the accounts that sign in, and what they ask in which surroundings
Accounts == Emails \cup {<<"a", "b", "@", "x">>}
SceneAccounts == IF InScene("accounts") THEN Accounts ELSE Emails
ScenePrompts == IF InScene("accounts") THEN {<<"Hello">>} ELSE WebPrompts
SceneEnvs ==
    IF InScene("accounts") THEN {e \in WebEnvs : e.build_ok /\ e.run.calls = <<>>}
    ELSE WebEnvs

\* the script runs to its end only when the logout flag is not set
Rendered == InSession /\ ~session_state.logout_requested

SignIn ==
    /\ Rendered /\ ~session_state.authenticated
    /\ \E response_user \in SceneAccounts \cup {NoneId} :
          session_state' = sign_in(session_state, response_user)
    /\ tracking' = script_start(tracking)
    /\ scene' = Ran("sign_in")
    /\ UNCHANGED interaction
    /\ SessionFrame

SignUp ==
    /\ Rendered /\ ~session_state.authenticated
    /\ \E response_user \in SceneAccounts \cup {NoneId} :
          session_state' = sign_up(session_state, response_user)
    /\ tracking' = script_start(tracking)
    /\ scene' = Ran("sign_up")
    /\ UNCHANGED interaction
    /\ SessionFrame

SignOut ==
    /\ Rendered /\ sidebar_signed_in(session_state)
    /\ \E raises \in BOOLEAN, new_thread_id \in ThreadIds \ {session_state.thread_id} :
          /\ session_state' = sign_out(session_state, raises, new_thread_id)
          /\ scene' = [Ran("sign_out") EXCEPT !.cleaned = IF raises THEN @ ELSE FALSE]
    /\ tracking' = script_start(tracking)
    /\ UNCHANGED interaction
    /\ SessionFrame

\* the run of the script that finds the logout flag
Render ==
    /\ InSession /\ session_state.logout_requested
    /\ session_state' = logout_check(session_state)
    /\ tracking' = script_start(tracking)
    /\ scene' = Ran("render")
    /\ UNCHANGED interaction
    /\ SessionFrame

NewConversation ==
    /\ InScene("session") /\ Rendered /\ sidebar_signed_in(session_state)
    /\ \E new_thread_id \in ThreadIds \ {session_state.thread_id} :
          session_state' = new_conversation(session_state, new_thread_id)
    /\ tracking' = IF scene.webapp = "streamlit"
                   THEN clear_processed_emails(script_start(tracking))
                   ELSE tracking
    /\ scene' = [Ran("new_conversation") EXCEPT !.cleaned = FALSE]
    /\ UNCHANGED interaction
    /\ SessionFrame

CleanErrors ==
    /\ InScene("session") /\ Rendered /\ sidebar_signed_in(session_state)
    /\ scene.webapp = "streamlit"
    /\ session_state' = clean_errors(session_state)
    /\ tracking' = script_start(tracking)
    /\ scene' = [Ran("clean_errors") EXCEPT
                    !.cleaned = @ \/ session_state' # session_state]
    /\ UNCHANGED interaction
    /\ SessionFrame

Prompt ==
    /\ Rendered /\ chat_shown(scene.webapp, session_state)
    /\ Len(session_state.messages) + 2 <= 2 * MaxPrompts
    /\ \E p \in ScenePrompts, env \in SceneEnvs :
          \E r \in {chat_input(scene.webapp, session_state, p, env.run,
                               env.willGrant, env.build_ok)} :
              /\ session_state' = [session_state EXCEPT !.messages = r.messages]
              /\ tracking' = r.tracking
              /\ interaction' =
                    [NoInteraction EXCEPT
                        !.called = TRUE,
                        !.authenticated = session_state.authenticated,
                        !.user = session_state.user,
                        !.prompt = p,
                        !.history = session_state.messages,
                        !.inputs = r.run.inputs,
                        !.log = r.run.st.log,
                        !.response = Last(r.messages).content,
                        !.failed = ~env.build_ok
                                   \/ \E i \in 1..Len(r.run.st.log) :
                                         r.run.st.log[i].kind = "error"]
    /\ scene' = [Ran("prompt") EXCEPT
                    !.identities = @ \cup {[email |-> session_state.user,
                                            user_id |-> agent_user_id(scene.webapp,
                                                           session_state.user)]}]
    /\ SessionFrame

\* one chunk of the stream, handled by the loop of stream_agent_response
StreamChunk ==
    /\ InScene("stream") /\ ~interaction.called /\ scene.steps < MaxChunks
    /\ \E last_message \in StreamMessages :
          /\ streaming' = stream_chunk(scene.webapp, streaming, last_message)
          /\ interaction' = [interaction EXCEPT !.calls = Append(@, last_message)]
    /\ scene' = Step
    /\ UNCHANGED <<graphvars, session_state, tracking, writer, placeholder>>

\* the stream ends, or raises: stream_agent_response returns
StreamReturn ==
    /\ InScene("stream") /\ ~interaction.called
    /\ \E raised \in BOOLEAN :
          \E e \in {stream_end(scene.webapp, streaming, raised, <<"failed">>)} :
              /\ streaming' = e.st
              /\ interaction' = [interaction EXCEPT !.called = TRUE,
                                                    !.response = e.response,
                                                    !.log = e.st.log,
                                                    !.failed = raised]
    /\ UNCHANGED <<graphvars, scene, session_state, tracking, writer, placeholder>>

\* writer(text)
WriterCall ==
    /\ InScene("writer") /\ scene.steps < MaxWrites
    /\ \E text \in WriterTexts :
          \E r \in {writer_call(scene.webapp, writer, placeholder, tracking, text)} :
              /\ writer' = r.writer
              /\ placeholder' = r.placeholder
              /\ tracking' = r.tracking
              /\ interaction' =
                    [interaction EXCEPT
                        !.called = TRUE,
                        !.calls = Append(@,
                            [op |-> "call", text |-> text,
                             appended |-> r.writer.content # writer.content,
                             email |-> writer_is_email_content(text)
                                       /\ r.writer.content # writer.content])]
    /\ scene' = Step
    /\ UNCHANGED <<graphvars, session_state, streaming>>

\* writer.reset()
WriterReset ==
    /\ InScene("writer") /\ scene.steps < MaxWrites
    /\ writer' = writer_reset(writer)
    /\ interaction' = [interaction EXCEPT !.calls = <<>>]
    /\ scene' = Step
    /\ UNCHANGED <<graphvars, session_state, tracking, placeholder, streaming>>

\* writer.finalize()
WriterFinalize ==
    /\ InScene("writer") /\ scene.steps < MaxWrites
    /\ \E r \in {writer_finalize(writer, placeholder)} :
          /\ writer' = r.writer
          /\ placeholder' = r.placeholder
          /\ interaction' =
                [interaction EXCEPT
                    !.calls = Append(@,
                        [op |-> "finalize", text |-> <<>>,
                         appended |-> r.placeholder # placeholder,
                         email |-> FALSE])]
    /\ scene' = Step
    /\ UNCHANGED <<graphvars, session_state, tracking, streaming>>

\* _format_json_email_data(json.loads(text))
FormatJson ==
    /\ InScene("format") /\ scene.steps < MaxFormats
    /\ \E text \in JsonTexts :
          \E r \in {format_json_email_data(scene.webapp, json_loads(text), tracking)} :
              /\ tracking' = r.tracking
              /\ interaction' = [interaction EXCEPT !.called = TRUE,
                                                    !.response = r.text,
                                                    !.emitted = r.emitted,
                                                    !.rendered = @ \o r.emitted,
                                                    !.data = json_loads(text).emails]
    /\ scene' = [Step EXCEPT !.handler = "format_json_email_data"]
    /\ UNCHANGED <<graphvars, session_state, writer, placeholder, streaming>>

\* clear_processed_emails()
ClearProcessedEmails ==
    /\ InScene("format") /\ scene.webapp = "streamlit" /\ scene.steps < MaxFormats
    /\ tracking' = clear_processed_emails(tracking)
    /\ interaction' = [interaction EXCEPT !.rendered = <<>>, !.emitted = <<>>]
    /\ scene' = [Step EXCEPT !.handler = "clear_processed_emails"]
    /\ UNCHANGED <<graphvars, session_state, writer, placeholder, streaming>>

\* the next interaction with the page: the script of arcade_3_streamlit_app
\* runs again from its first line
ScriptRun ==
    /\ InScene("format") /\ scene.webapp = "streamlit" /\ scene.steps < MaxFormats
    /\ tracking' = script_start(tracking)
    /\ interaction' = [interaction EXCEPT !.emitted = <<>>]
    /\ scene' = [Step EXCEPT !.handler = "script"]
    /\ UNCHANGED <<graphvars, session_state, writer, placeholder, streaming>>

WebNext ==
    \/ SignIn \/ SignUp \/ SignOut \/ Render \/ NewConversation \/ CleanErrors
    \/ Prompt
    \/ StreamChunk \/ StreamReturn
    \/ WriterCall \/ WriterReset \/ WriterFinalize
    \/ FormatJson \/ ClearProcessedEmails \/ ScriptRun

WebSpec == WebInit /\ [][WebNext]_vars

----------------------------------------------------------------------------
(* Properties *)

\* copy c takes the step of node n
StepOf(c, n) == trace'[c] = Append(trace[c], n)

\* the authorization node of copy c left a request ungranted after waiting
Ungranted(log, granted) ==
    \E k \in DOMAIN log :
        log[k].ev = "is_authorized" /\ <<log[k].tool, log[k].user>> \notin granted

IsPrefix(s, t) == Len(s) <= Len(t) /\ SubSeq(t, 1, Len(s)) = s

C1_EndOnlyFromAgent(c) ==
    (node'[c] = END /\ node[c] # END)
        => (StepOf(c, "agent") /\ Last(messages'[c]).tool_calls = <<>>)
C1_ToolCallsGoOn(c) ==
    (StepOf(c, "agent") /\ Last(messages'[c]).tool_calls # <<>>)
        => node'[c] \in {"tools", "authorization"}
C1_ToolsBackToAgent(c) == StepOf(c, "tools") => node'[c] = "agent"

\* C1 as stated: END is reached only from the agent node with a last message
\* without tool calls; a message with tool calls leads to the tools node,
\* directly or through authorization, and tools leads back to the agent.
C1_AsStated ==
    [][\A c \in Trio :
         /\ C1_EndOnlyFromAgent(c)
         /\ C1_ToolCallsGoOn(c)
         /\ StepOf(c, "authorization") => node'[c] = "tools"
         /\ C1_ToolsBackToAgent(c)]_vars

\* C1 amended: as C1, except that the authorization node of a2 and a3 does
\* not go on to tools when a request is still ungranted after waiting: the
\* run then stops with ValueError; in every other case, and always in cli,
\* authorization is followed by tools.
C1_LoopEdges ==
    [][\A c \in Trio :
         /\ C1_EndOnlyFromAgent(c)
         /\ C1_ToolCallsGoOn(c)
         /\ StepOf(c, "authorization") =>
              IF c \in {"a2", "a3"} /\ Ungranted(authLog'[c], authorized'[c])
              THEN node'[c] = "error" /\ err'[c] = "ValueError"
              ELSE node'[c] = "tools"
         /\ C1_ToolsBackToAgent(c)]_vars

\* a run that went through authorization and tools, back to the agent, to END
C1_Witness ==
    \A c \in Trio :
        node[c] = END /\ trace[c] = <<"agent", "authorization", "tools", "agent">>

\* C2: the tools node runs a tool call that requires authorization only when
\* the authorization of that tool for the user of the authorization node is
\* complete; this holds for every tool call of the message.
C2_ToolsOnlyWhenAuthorized ==
    \A c \in Trio :
        \A i \in DOMAIN executed[c] :
            requires_auth(executed[c][i])
                => <<executed[c][i], authUser[c]>> \in authorized[c]

\* two calls that require authorization ran, the second granted after a wait
C2_Witness ==
    \E c \in Trio :
        /\ Len(executed[c]) = 2
        /\ \A i \in 1..2 : requires_auth(executed[c][i])
        /\ \E k \in DOMAIN authLog[c] :
               authLog[c][k].ev = "wait" /\ authLog[c][k].call = 2

Perms(n) == {f \in [1..n -> 1..n] : \A i, j \in 1..n : f[i] = f[j] => i = j}

\* the state in which the last message has its tool calls in the order f
Reordered(msgs, f) ==
    [msgs EXCEPT ![Len(msgs)].tool_calls =
        [i \in 1..Len(f) |-> Last(msgs).tool_calls[f[i]]]]

\* C3: after the agent node the run is at "authorization" exactly when some
\* tool call of the last message requires authorization, at "tools" exactly
\* when there are tool calls and none requires it, at END exactly when there
\* are none; and no reordering of the tool calls changes the decision.
C3_ShouldContinue ==
    \A c \in Trio :
        (trace[c] # <<>> /\ Last(trace[c]) = "agent") =>
            LET calls == Last(messages[c]).tool_calls
                needs == \E i \in DOMAIN calls : requires_auth(calls[i].name)
            IN  /\ node[c] = "authorization" <=> needs
                /\ node[c] = "tools" <=> (calls # <<>> /\ ~needs)
                /\ node[c] = END <=> calls = <<>>
                /\ \A f \in Perms(Len(calls)) :
                       next_node(c, "agent", Reordered(messages[c], f)) = node[c]

\* authorization is decided by the second tool call, not the first
C3_Witness ==
    \A c \in Trio :
        /\ node[c] = "authorization"
        /\ Len(Last(messages[c]).tool_calls) = 2
        /\ ~requires_auth(Last(messages[c]).tool_calls[1].name)

\* the events of tool call i in log, by kind
EventsOf(log, i, ev) == {k \in DOMAIN log : log[k].call = i /\ log[k].ev = ev}

C5_AuthorizationFailed ==
    [][\A c \in {"a2", "a3"} :
         /\ StepOf(c, "authorization") =>
              LET log == authLog'[c] IN
              /\ Ungranted(log, authorized'[c]) <=> err'[c] = "ValueError"
              /\ err'[c] = "ValueError" =>
                   /\ node'[c] = "error"
                   /\ messages'[c] = messages[c]
                   /\ executed'[c] = executed[c]
                   /\ log[Len(log)].ev = "is_authorized"
                   /\ \A k \in DOMAIN log : log[k].call <= log[Len(log)].call
         /\ node[c] = "error" =>
              /\ node'[c] = "error"
              /\ messages'[c] = messages[c]
              /\ trace'[c] = trace[c]
              /\ executed'[c] = executed[c]]_vars

\* the first of two calls was refused, the second requires authorization too
C5_Witness ==
    \A c \in {"a2", "a3"} :
        /\ err[c] = "ValueError"
        /\ Len(Last(messages[c]).tool_calls) = 2
        /\ requires_auth(Last(messages[c]).tool_calls[2].name)
        /\ authLog[c][Len(authLog[c])].call = 1

AllStopped == \A c \in Copies : node[c] \in Stopped \cup {"idle"}

\* C6 as stated: on the same model outputs and authorization outcomes the
\* three copies visit the same nodes and end in the same way.
C6_AsStated ==
    \A c, d \in Trio : trace[c] = trace[d] /\ node[c] = node[d]

\* C6 amended: a2 and a3 visit the same nodes and end in the same way; cli
\* does as they do on every run in which no request is left ungranted after
\* waiting; when one is, a2 and a3 stop with ValueError after the
\* authorization node, while cli appends an assistant message and goes on
\* to tools and from there to the agent.
C6_Equivalent ==
    ~AppMode =>
        /\ trace["a2"] = trace["a3"] /\ node["a2"] = node["a3"]
        /\ err["a2"] = err["a3"]
        /\ err["a2"] = "none" =>
             trace["cli"] = trace["a2"] /\ node["cli"] = node["a2"]
        /\ err["a2"] = "ValueError" =>
             /\ Last(trace["a2"]) = "authorization"
             /\ IsPrefix(trace["a2"], trace["cli"])
             /\ Len(trace["cli"]) > Len(trace["a2"])
                  => trace["cli"][Len(trace["a2"]) + 1] = "tools"
             /\ Len(trace["cli"]) > Len(trace["a2"]) + 1
                  => trace["cli"][Len(trace["a2"]) + 2] = "agent"
             /\ err["cli"] = "none"

\* all three copies ended after an authorization that was granted on waiting
C6_Witness ==
    /\ \A c \in Trio : node[c] = END /\ Len(trace[c]) = 4
    /\ \A c \in Trio : \E k \in DOMAIN authLog[c] : authLog[c][k].ev = "wait"

\* C7: every run stops, at END or with an error, when every node call
\* returns and the model at some point answers without tool calls; and the
\* run of app.py takes at most recursion_limit steps whatever the model does.
C7_Terminates ==
    /\ <>AllStopped
    /\ [](steps["app"] <= recursion_limit)

\* the run of app.py was cut off at the limit
C7_Witness ==
    /\ err["app"] = "GraphRecursionError"
    /\ steps["app"] = recursion_limit
    /\ Len(trace["app"]) = recursion_limit

\* C8: the user id the authorization node passes to manager.authorize is the
\* user_id of the run's configuration whenever the run has one.
C8_UserOfTheRun ==
    \A c \in Copies :
        \A k \in DOMAIN authLog[c] :
            (authLog[c][k].ev = "authorize" /\ config[c].user_id # Absent)
                => authLog[c][k].user = config[c].user_id

\* C9: the history only grows; the agent node appends exactly the model
\* response, an authorization node that leaves nothing ungranted appends
\* nothing, the tools node appends tool results only, and the model is given
\* the whole history, tool results included, at the next call.
C9_AppendOnly ==
    [][\A c \in Copies :
         /\ IsPrefix(messages[c], messages'[c])
         /\ StepOf(c, "agent") =>
              /\ Len(messages'[c]) = Len(messages[c]) + 1
              /\ Last(messages'[c]).type = "ai"
              /\ Len(modelInput'[c]) >= Len(messages[c])
              /\ SubSeq(modelInput'[c],
                        Len(modelInput'[c]) - Len(messages[c]) + 1,
                        Len(modelInput'[c])) = messages[c]
         /\ (StepOf(c, "authorization")
               /\ ~Ungranted(authLog'[c], authorized'[c]))
              => messages'[c] = messages[c]
         /\ StepOf(c, "tools") =>
              /\ Len(messages'[c]) - Len(messages[c]) = Len(executed'[c])
              /\ \A i \in (Len(messages[c]) + 1)..Len(messages'[c]) :
                    messages'[c][i].type = "tool"]_vars

\* the model was called with two tool results of the round before
C9_Witness ==
    \A c \in Trio :
        /\ Len(modelInput[c]) >= 4
        /\ modelInput[c][Len(modelInput[c])].type = "tool"
        /\ modelInput[c][Len(modelInput[c]) - 1].type = "tool"

\* C10: when the loop of the cli ends with a final assistant message of
\* non-empty content, process_command returns a text that contains it.
C10_ReturnsTheResponse ==
    (returned # <<>> /\ node["cli"] = END
       /\ Last(messages["cli"]).content # <<>>)
        => contains(returned, Last(messages["cli"]).content)

----------------------------------------------------------------------------
(* Properties of the web front ends *)

\* C11: in both web apps, authenticated = True implies user is not None in
\* every session state, and run_agent_interaction is only called for a
\* session that is authenticated.
C11_SignedInOnly ==
    InScene("session") =>
        /\ session_state.authenticated => session_state.user # NoneId
        /\ interaction.called =>
              interaction.authenticated /\ interaction.user # NoneId

\* a prompt has been answered for a signed-in user
C11_Witness ==
    /\ InScene("session") /\ scene.webapp = "streamlit"
    /\ scene.handler = "prompt"
    /\ interaction.called /\ interaction.authenticated
    /\ interaction.user \in Emails

\* C13: a sign_out whose backend call succeeds leaves authenticated = False,
\* user = None, an empty history, a new thread_id and logout_requested =
\* True; one whose backend call raises changes no session field; and the
\* render that follows clears logout_requested and nothing else.
C13_SignOut ==
    [][/\ SignOut =>
            \/ session_state' = session_state
            \/ /\ session_state'.authenticated = FALSE
               /\ session_state'.user = NoneId
               /\ session_state'.messages = <<>>
               /\ session_state'.thread_id # session_state.thread_id
               /\ session_state'.logout_requested = TRUE
       /\ (InScene("session") /\ session_state.logout_requested) =>
            session_state' = [session_state EXCEPT !.logout_requested = FALSE]
      ]_vars

\* the user has signed out of a conversation with history; the flag is set
C13_Witness ==
    /\ InScene("session") /\ scene.handler = "sign_out"
    /\ session_state.logout_requested
    /\ interaction.called
    /\ session_state.messages = <<>> /\ ~session_state.authenticated

\* C14: New Conversation empties the history and replaces thread_id by a
\* fresh value, leaves authenticated and user as they are, and in
\* arcade_3_streamlit_app leaves the three tracking sets empty.
C14_NewConversation ==
    [][NewConversation =>
          /\ session_state'.messages = <<>>
          /\ session_state'.thread_id # session_state.thread_id
          /\ session_state'.authenticated = session_state.authenticated
          /\ session_state'.user = session_state.user
          /\ session_state'.logout_requested = session_state.logout_requested
          /\ scene.webapp = "streamlit" =>
                /\ tracking'.processed_emails_global = {}
                /\ tracking'.processed_email_content_hashes = {}
                /\ tracking'.processed_email_subjects = {}
      ]_vars

\* a conversation with history has been replaced by a new one
C14_Witness ==
    /\ InScene("session") /\ scene.webapp = "streamlit"
    /\ scene.handler = "new_conversation"
    /\ interaction.called
    /\ session_state.messages = <<>> /\ session_state.authenticated

\* a step in which the main chat interface has handled a prompt
PromptStep ==
    /\ InScene("session") /\ scene'.handler = "prompt"
    /\ <<session_state, interaction>>' # <<session_state, interaction>>

\* the history alternates user, assistant
Alternates(history) ==
    /\ Len(history) % 2 = 0
    /\ \A i \in 1..Len(history) :
          history[i].role = IF i % 2 = 1 THEN "user" ELSE "assistant"

\* C15: every prompt adds exactly two entries to the history, the user
\* message and then one assistant message, also when the interaction fails;
\* so as long as only prompts, New Conversation and sign-outs act on it, the
\* history has even length and alternates user, assistant.
C15_TwoEntriesPerPrompt ==
    /\ [][PromptStep =>
            /\ Len(session_state'.messages) = Len(session_state.messages) + 2
            /\ SubSeq(session_state'.messages, 1, Len(session_state.messages))
                  = session_state.messages
            /\ session_state'.messages[Len(session_state.messages) + 1]
                  = Entry("user", interaction'.prompt)
            /\ session_state'.messages[Len(session_state.messages) + 2].role
                  = "assistant"
         ]_vars
    /\ []((InScene("session") /\ ~scene.cleaned) => Alternates(session_state.messages))

\* a prompt whose interaction failed is in the history with its answer
C15_Witness ==
    /\ InScene("session") /\ scene.handler = "prompt"
    /\ interaction.failed
    /\ Len(session_state.messages) = 2 * MaxPrompts
    /\ Last(session_state.messages).role = "assistant"

\* the draft tool call was executed by the tools node before entry i of log
ExecutedBefore(log, i, tool_name) ==
    \E j \in 1..(i - 1) :
        /\ log[j].ev = "node" /\ log[j].kind = "tools"
        /\ \E k \in 1..Len(log[j].tools) : log[j].tools[k] = tool_name

\* entry i of log tells the user that the draft of a tool call was created
SaysCreated(webapp, log, i) ==
    /\ log[i].ev = "write" /\ log[i].kind = "summary"
    /\ log[i].tools # <<>> /\ log[i].tools[1] \in DraftTools
    /\ starts_with(log[i].text, created_successfully(webapp, log[i].tools[1]))

\* C12: the "Draft Email Created Successfully!" / "Draft Reply Created
\* Successfully!" summary of a draft tool call is written only after the
\* tools node has executed that call: never before authorization or tool
\* execution, and never in a run that failed before the tool ran.
C12_SummaryAfterTools ==
    InScene("session") =>
        \A i \in 1..Len(interaction.log) :
            SaysCreated(scene.webapp, interaction.log, i)
                => ExecutedBefore(interaction.log, i, interaction.log[i].tools[1])

\* C16: the messages given to the graph for a prompt are the earlier turns of
\* the conversation followed by the current prompt, exactly once.
C16_PromptOnce ==
    (InScene("session") /\ interaction.called /\ interaction.inputs # <<>>) =>
        interaction.inputs
            = history_messages(scene.webapp, interaction.history)
              \o <<HumanMessage(interaction.prompt)>>

\* an assistant entry that holds "Error processing request"
ErrorEntry(msg) ==
    msg.role = "assistant" /\ contains(msg.content, error_processing_request)

\* no such entry is among the messages sent to the graph
C17_KeptOut ==
    \A i \in 1..Len(interaction.inputs) :
        interaction.inputs[i].type = "ai"
            => ~contains(interaction.inputs[i].content, error_processing_request)

\* Clean Errors removes exactly those entries and keeps the others in order
C17_Cleaned ==
    (InScene("session") /\ scene'.handler = "clean_errors"
       /\ session_state' # session_state)
      => session_state' =
            [session_state EXCEPT
                !.messages = SelectSeq(@, LAMBDA msg : ~ErrorEntry(msg))]

\* the text a failed interaction stores in the history is such an entry
C17_Covered ==
    (interaction.called /\ interaction.failed)
        => ErrorEntry(Last(session_state.messages))
           \/ scene.handler # "prompt"

\* C17: in arcade_3_streamlit_app no assistant entry containing "Error
\* processing request" is sent to the graph, Clean Errors removes exactly
\* those entries and keeps the others in their order, and every error text
\* that a failed interaction stores in the history is covered by this filter.
C17_ErrorsFiltered ==
    /\ []((InScene("session") /\ scene.webapp = "streamlit")
            => (C17_KeptOut /\ C17_Covered))
    /\ [][scene.webapp = "streamlit" => C17_Cleaned]_vars

\* the first two parts of C17 by themselves
C17_FilterAndClean ==
    /\ []((InScene("session") /\ scene.webapp = "streamlit") => C17_KeptOut)
    /\ [][scene.webapp = "streamlit" => C17_Cleaned]_vars

\* the entries of log that wrote a formatted e-mail block
EmailWrites(log) ==
    {i \in 1..Len(log) : log[i].ev = "write" /\ log[i].kind = "email"}

\* the record of one call of stream_agent_response
OncePerResponse(log) ==
    /\ Cardinality(EmailWrites(log)) <= 1
    /\ \A i, j \in 1..Len(log) :
          (i < j /\ log[i].ev = "write" /\ log[j].ev = "write"
             /\ log[i].path = "content" /\ log[j].path = "content")
            => strip(log[i].source) # strip(log[j].source)

\* C18: within one call of stream_agent_response (both web apps) at most one
\* e-mail-like content is formatted and written, whichever path it arrives
\* on, and a message content whose stripped text was seen before in the call
\* is not written again.
C18_OncePerResponse ==
    /\ InScene("stream") => OncePerResponse(streaming.log)
    /\ InScene("session") => OncePerResponse(interaction.log)

\* three chunks: an e-mail in the message content, the same content again,
\* then an e-mail among the tool results; one block was written
C18_Witness ==
    /\ InScene("stream") /\ Len(interaction.calls) = 3
    /\ is_email_like_content(interaction.calls[1].content)
    /\ interaction.calls[2].content = interaction.calls[1].content
    /\ interaction.calls[3].tool_results # <<>>
    /\ is_email_like_content(interaction.calls[3].tool_results[1])
    /\ Cardinality(EmailWrites(streaming.log)) = 1

\* text is empty, blank or 'null'
NoText(text) == text = <<>> \/ strip(text) = <<>> \/ lower(text) = <<"null">>

\* the operations on the writer since its last reset
C19_SinceReset ==
    LET calls == interaction.calls IN
    /\ \A i, j \in 1..Len(calls) :
          (i < j /\ calls[i].op = "call" /\ calls[j].op = "call"
             /\ calls[i].appended /\ calls[j].appended)
            => strip(calls[i].text) # strip(calls[j].text)
    /\ \A i \in 1..Len(calls) :
          (calls[i].op = "call" /\ NoText(calls[i].text)) => ~calls[i].appended
    /\ Cardinality({i \in 1..Len(calls) : calls[i].email}) <= 1
    /\ Cardinality({i \in 1..Len(calls) :
                       calls[i].op = "finalize" /\ calls[i].appended}) <= 1

\* C19: StreamlitWriter of arcade_3_streamlit_app, over the calls since its
\* last reset, appends each distinct text (compared after stripping) at most
\* once, ignores empty and 'null' text, appends at most one e-mail block, and
\* finalize updates the placeholder at most once: a finalize of a finalized
\* writer, or with blank content, leaves the placeholder as it is.
C19_WriterOnce ==
    /\ [](InScene("writer") => C19_SinceReset)
    /\ [][WriterFinalize =>
            ((writer.finalized \/ strip(writer.content) = <<>>)
                => placeholder' = placeholder)]_vars

\* a text was written, finalize has shown it, and a second finalize has not
C19_Witness ==
    /\ InScene("writer") /\ Len(interaction.calls) = 3
    /\ interaction.calls[1].op = "call" /\ interaction.calls[1].appended
    /\ interaction.calls[2].op = "finalize" /\ interaction.calls[2].appended
    /\ interaction.calls[3].op = "finalize" /\ ~interaction.calls[3].appended
    /\ Len(placeholder) = 1

\* C20: in arcade_3_streamlit_app, between two calls of
\* clear_processed_emails, _format_json_email_data renders no e-mail twice:
\* an e-mail whose identifier or whose non-empty subject was rendered before
\* is skipped in the same and in every later call.
C20_RenderedOnce ==
    (InScene("format") /\ scene.webapp = "streamlit") =>
        \A i, j \in 1..Len(interaction.rendered) :
            i < j =>
                /\ email_id(interaction.rendered[i].email)
                      # email_id(interaction.rendered[j].email)
                /\ \/ strip(interaction.rendered[i].email.subject) = <<>>
                   \/ strip(interaction.rendered[i].email.subject)
                         # strip(interaction.rendered[j].email.subject)

\* the part of C20 that holds: clear_processed_emails leaves the three sets
\* empty, and within one run of the script no e-mail is rendered twice
C20_WithinOneRun ==
    /\ [][ClearProcessedEmails => tracking' = NoTracking]_vars
    /\ []((InScene("format") /\ scene.webapp = "streamlit")
            => \A i \in 1..Len(interaction.emitted) :
                  /\ email_id(interaction.emitted[i].email)
                        \in tracking.processed_emails_global
                  /\ \A j \in 1..Len(interaction.emitted) :
                        i < j => email_id(interaction.emitted[i].email)
                                    # email_id(interaction.emitted[j].email))

\* the numbers under which a text shows its e-mails: the tokens before a "."
RECURSIVE numbers_shown(_)
numbers_shown(text) ==
    IF Len(text) < 2 THEN <<>>
    ELSE IF text[2] = "." THEN <<text[1]>> \o numbers_shown(Tail(Tail(text)))
    ELSE numbers_shown(Tail(text))

\* a step that is a call of _format_json_email_data
FormatJsonStep ==
    /\ InScene("format") /\ scene'.steps = scene.steps + 1
    /\ scene'.handler = "format_json_email_data"

\* e-mail j of data is a duplicate when the loop reaches it: an e-mail
\* emitted before it (ats: the positions emitted) has its identifier, or, in
\* arcade_3_streamlit_app, the sets tr hold its identifier or its subject or
\* an e-mail emitted before it has its non-empty subject
SkippedAsDuplicate(webapp, tr, data, ats, j) ==
    \/ \E i \in ats : i < j /\ email_id(data[i]) = email_id(data[j])
    \/ /\ webapp = "streamlit"
       /\ \/ email_id(data[j]) \in tr.processed_emails_global
          \/ /\ strip(data[j].subject) # <<>>
             /\ \/ strip(data[j].subject) \in tr.processed_email_subjects
                \/ \E i \in ats : i < j /\ strip(data[i].subject)
                                                = strip(data[j].subject)

\* C21: a call of _format_json_email_data shows the e-mails it emits under
\* the numbers 1, 2, ..., k, in the order of the input and without gaps; k is
\* the number of e-mails of the input that are not skipped as duplicates,
\* and a skipped e-mail takes no number (both web apps).
C21_NumberedConsecutively ==
    [][FormatJsonStep =>
        LET data == interaction'.data
            emitted == interaction'.emitted
            k == Len(emitted)
            ats == {emitted[n].at : n \in 1..k}
        IN  /\ numbers_shown(interaction'.response) = [n \in 1..k |-> ToString(n)]
            /\ \A n \in 1..k :
                  /\ emitted[n].number = n
                  /\ emitted[n].at \in 1..Len(data)
                  /\ emitted[n].email = data[emitted[n].at]
            /\ \A m, n \in 1..k : m < n => emitted[m].at < emitted[n].at
            /\ \A j \in 1..Len(data) :
                  j \notin ats
                     <=> SkippedAsDuplicate(scene.webapp, tracking, data, ats, j)
            /\ k = Cardinality({j \in 1..Len(data) :
                     ~SkippedAsDuplicate(scene.webapp, tracking, data, ats, j)})]_vars

\* three e-mails were given, the second was skipped as a duplicate, and the
\* third is shown under the number 2
C21_Witness ==
    /\ InScene("format") /\ scene.handler = "format_json_email_data"
    /\ Len(interaction.data) = 3 /\ Len(interaction.emitted) = 2
    /\ interaction.emitted[1].at = 1
    /\ interaction.emitted[2].at = 3 /\ interaction.emitted[2].number = 2
    /\ numbers_shown(interaction.response) = <<"1", "2">>

----------------------------------------------------------------------------
(* Properties of call_agent of arcade_2_langgraph_agent and of the user ids *)

\* the sequences of a sequence, one after the other
RECURSIVE Concat(_)
Concat(ss) ==
    IF ss = <<>> THEN <<>> ELSE Concat(SubSeq(ss, 1, Len(ss) - 1)) \o ss[Len(ss)]

\* a step in which the agent node of copy c ran
AgentStep(c) == trace'[c] = Append(trace[c], "agent")

NamedCall(tc) == tc.name \notin {"", " "}

\* C22: call_agent of arcade_2_langgraph_agent appends one message; its
\* content is the content of the streamed chunks in the order of arrival,
\* every non-empty content was passed to the writer in that order, and its
\* tool calls are the streamed tool calls in order without those whose name
\* is empty or blank; no message of the run, and so nothing should_continue,
\* authorize or the tools node reads, has a tool call with such a name.
C22_CallAgent ==
    /\ [][AgentStep("a2") =>
            LET response == Last(messages'["a2"])
                contents == [i \in 1..Len(streamed'.chunks) |->
                               streamed'.chunks[i].content]
                calls == [i \in 1..Len(streamed'.chunks) |->
                            streamed'.chunks[i].tool_calls]
            IN  /\ messages'["a2"] = Append(messages["a2"], response)
                /\ response.type = "ai"
                /\ response.content = Concat(contents)
                /\ streamed'.written = SelectSeq(contents, LAMBDA x : x # <<>>)
                /\ Concat(streamed'.written) = response.content
                /\ response.tool_calls = SelectSeq(Concat(calls), NamedCall)]_vars
    /\ [](/\ \A i \in 1..Len(messages["a2"]) :
               \A j \in 1..Len(messages["a2"][i].tool_calls) :
                   NamedCall(messages["a2"][i].tool_calls[j])
          /\ \A i \in 1..Len(executed["a2"]) : executed["a2"][i] \notin {"", " "}
          /\ \A i \in 1..Len(authLog["a2"]) : authLog["a2"][i].tool \notin {"", " "})

\* two tool calls arrived in five chunks, two of them continuations without
\* a name, and the tools node has run the two
C22_Witness ==
    /\ Len(streamed.chunks) = 5
    /\ \E i \in 1..5 : streamed.chunks[i].tool_calls # <<>>
           /\ \A j \in 1..Len(streamed.chunks[i].tool_calls) :
                  ~NamedCall(streamed.chunks[i].tool_calls[j])
    /\ Len(executed["a2"]) = 2

\* C23: two signed-in users with different e-mail addresses never have the
\* same user_id in the agent configuration.
C23_DistinctUsers ==
    \A p, q \in scene.identities : p.email # q.email => p.user_id # q.user_id

\* the part of C23 that holds: app.py passes the e-mail itself, and in both
\* apps the user_id is the e-mail without its dots at most
C23_RawEmail ==
    \A p \in scene.identities :
        /\ p.email \in Accounts
        /\ scene.webapp = "app" => p.user_id = p.email
        /\ scene.webapp = "streamlit" =>
              /\ \A i \in 1..Len(p.user_id) : p.user_id[i] # "."
              /\ Len(p.user_id) = Cardinality({i \in 1..Len(p.email) : p.email[i] # "."})
        /\ (scene.webapp = "app" =>
              \A q \in scene.identities : p.email # q.email => p.user_id # q.user_id)

====
